---- MODULE Spec2Model ----
(***************************************************************************)
(* Model of examples/test-examples.py, the harness that synthesizes the    *)
(* TypeScript and Python examples, compares their templates, deploys and   *)
(* destroys the TypeScript ones and reports every error.                   *)
(*                                                                         *)
(* Conventions.                                                            *)
(*  - A Python str is a sequence of tokens; "" is << >>, + is \o.          *)
(*  - Optional[str] is a sequence of length 0 (None) or 1.                 *)
(*  - An example path "typescript/<name>" is [lang, name]; names are the   *)
(*    naturals 1..MaxName, ordered as sorted() orders the strings.         *)
(*  - A directory listing is [exists, entries]; an entry is [name, is_dir, *)
(*    files], files being the entry-point files found inside it.           *)
(*  - The outcome of an external process is an input: [kind, code, out,    *)
(*    err] with kind "exit" (the process ran and exited with code),        *)
(*    "timeout" (subprocess.TimeoutExpired), "oserror" (it could not be    *)
(*    started; err is str(e)) or "hang" (a process read through Popen that *)
(*    never exits and never closes its output).                            *)
(*  - log is a history variable: the external operations the run has       *)
(*    performed and the names phase 2 has visited, in order, each with its *)
(*    result.                                                              *)
(***************************************************************************)
EXTENDS Integers, Sequences, FiniteSets, TLC

VARIABLES
    pc,                     \* position of the process in the module / main()
    args,                   \* argparse result: skip_deploy, skip_package, examples
    tree,                   \* examples/<lang>/ directory listing (input)
    tools,                  \* health of the machine's npm and python, and whether
                            \* dist/ holds the built package (input)
    ts_examples, py_examples, example_names,
    ts_templates, py_templates,
    synth_errors, comparison_errors, deploy_errors, destroy_errors,
    successful_ts_examples,
    idx,                    \* loop index of the for loop being executed
    todo,                   \* example_names not yet visited by the phase 2 loop
    exit_code,              \* process exit status, -1 while running
    log,                    \* history of external operations
    console,                \* phase-level lines printed so far
    synth_in, synth_out     \* argument and result of a function applied on its
                            \* own (SynthSpec, RunSpec, FindSpec)

vars == <<pc, args, tree, tools, ts_examples, py_examples, example_names,
          ts_templates, py_templates, synth_errors, comparison_errors,
          deploy_errors, destroy_errors, successful_ts_examples, idx, todo,
          exit_code, log, console, synth_in, synth_out>>

mainVars == <<pc, args, tree, tools, ts_examples, py_examples, example_names,
              ts_templates, py_templates, synth_errors, comparison_errors,
              deploy_errors, destroy_errors, successful_ts_examples, idx, todo,
              exit_code, log, console>>

(***************************************************************************)
(* Bounds                                                                  *)
(***************************************************************************)
MaxName == 2
MaxExamples == 2
MaxFiles == 2
MaxCode == 2
MaxMembers == 2
MaxDiffLines == 22

\* diff.split('\n')[:20]
DisplayedLines == 20

Names == 1..MaxName
Langs == {"typescript", "python"}
NoEx == [lang |-> "none", name |-> 0]
None == << >>

RECURSIVE SetToSortedSeq(_)
SetToSortedSeq(S) ==
    IF S = {} THEN << >>
    ELSE LET m == CHOOSE x \in S : \A y \in S : x <= y
         IN <<m>> \o SetToSortedSeq(S \ {m})

ExamplePath(lang, name) == [lang |-> lang, name |-> name]
PathName(example) == example.name

Ev(op, ex, code, err, arg) ==
    [op |-> op, ex |-> ex, code |-> code, err |-> err, arg |-> arg]

(***************************************************************************)
(* run_command                                                             *)
(***************************************************************************)
ExitProc(code, out, err) == [kind |-> "exit", code |-> code, out |-> out, err |-> err]
TimeoutProc == [kind |-> "timeout", code |-> 0, out |-> << >>, err |-> << >>]
OSErrorProc(msg) == [kind |-> "oserror", code |-> 0, out |-> << >>, err |-> msg]
HangProc == [kind |-> "hang", code |-> 0, out |-> << >>, err |-> << >>]

run_command_timeout_exits_zero(proc) ==
    IF proc.kind = "exit"
    THEN [raised |-> FALSE, code |-> proc.code, out |-> proc.out, err |-> proc.err]
    ELSE IF proc.kind = "timeout"
    THEN [raised |-> FALSE, code |-> 0, out |-> << >>,
          err |-> <<"Command timed out after 10 minutes">>]
    ELSE [raised |-> FALSE, code |-> 1, out |-> << >>, err |-> proc.err]

run_command_drops_launch_error(proc) ==
    IF proc.kind = "exit"
    THEN [raised |-> FALSE, code |-> proc.code, out |-> proc.out, err |-> proc.err]
    ELSE IF proc.kind = "timeout"
    THEN [raised |-> FALSE, code |-> 1, out |-> << >>,
          err |-> <<"Command timed out after 10 minutes">>]
    ELSE [raised |-> FALSE, code |-> 1, out |-> << >>, err |-> << >>]

run_command_propagates_oserror(proc) ==
    IF proc.kind = "exit"
    THEN [raised |-> FALSE, code |-> proc.code, out |-> proc.out, err |-> proc.err]
    ELSE IF proc.kind = "timeout"
    THEN [raised |-> FALSE, code |-> 1, out |-> << >>,
          err |-> <<"Command timed out after 10 minutes">>]
    ELSE [raised |-> TRUE, code |-> 1, out |-> << >>, err |-> proc.err]

run_command(proc) ==
    IF proc.kind = "exit"
    THEN [raised |-> FALSE, code |-> proc.code, out |-> proc.out, err |-> proc.err]
    ELSE IF proc.kind = "timeout"
    THEN [raised |-> FALSE, code |-> 1, out |-> << >>,
          err |-> <<"Command timed out after 10 minutes">>]
    ELSE [raised |-> FALSE, code |-> 1, out |-> << >>, err |-> proc.err]

(***************************************************************************)
(* find_examples                                                           *)
(***************************************************************************)
AppFile(lang) == IF lang = "typescript" THEN "app.ts" ELSE "app.py"

Qualifies_filters_typescript_only(lang, entry, filter_names) ==
    /\ entry.is_dir
    /\ (filter_names = None \/ lang # "typescript" \/ entry.name \in filter_names[1])
    /\ AppFile(lang) \in entry.files

Qualifies(lang, entry, filter_names) ==
    /\ entry.is_dir
    /\ (filter_names = None \/ entry.name \in filter_names[1])
    /\ AppFile(lang) \in entry.files

find_examples(t, filter_names) ==
    [l \in Langs |->
        IF ~t[l].exists THEN << >>
        ELSE LET found == {e.name : e \in {x \in t[l].entries : Qualifies(l, x, filter_names)}}
                 sorted == SetToSortedSeq(found)
             IN [i \in 1..Len(sorted) |-> ExamplePath(l, sorted[i])]]

(***************************************************************************)
(* normalize_json, compare_templates                                       *)
(* A JSON value is a node [k, s, items]: a scalar (s is its text), an      *)
(* array (items are its elements), an object (items are its members, in    *)
(* the order they are written) or a member (s is the key, items holds the  *)
(* value).  A template text is [json, style, doc].  json = TRUE: the text  *)
(* is the JSON value doc written in the given style ("indent2" is what     *)
(* json.dumps(indent=2) writes, "compact" any other layout); json = FALSE: *)
(* the text does not parse and doc is the array of its lines.              *)
(***************************************************************************)
Scalar(text) == [k |-> "scalar", s |-> text, items |-> << >>]
Array(elements) == [k |-> "array", s |-> "", items |-> elements]
Object(members) == [k |-> "object", s |-> "", items |-> members]
Member(key, value) == [k |-> "member", s |-> key, items |-> <<value>>]
JsonText(style, value) == [json |-> TRUE, style |-> style, doc |-> value]
RawText(lines) ==
    [json |-> FALSE, style |-> "raw", doc |-> Array([i \in 1..Len(lines) |-> Scalar(lines[i])])]

Reverse(s) == [i \in 1..Len(s) |-> s[Len(s) + 1 - i]]

KeysSorted == <<"Outputs", "Resources", "Type">>
KeyRank(k) == CHOOSE i \in 1..Len(KeysSorted) : KeysSorted[i] = k

\* json.loads: an object becomes a dict, which keeps one entry per key, at
\* the place of the key's first occurrence and with its last value.
RECURSIVE LoadValue(_)
LoadValue(node) ==
    IF node.k = "scalar" THEN node
    ELSE IF node.k = "array"
    THEN Array([i \in 1..Len(node.items) |-> LoadValue(node.items[i])])
    ELSE LET ms == node.items
             firsts == SetToSortedSeq({i \in 1..Len(ms) :
                                         \A j \in 1..(i - 1) : ms[j].s # ms[i].s})
             last(key) == CHOOSE i \in 1..Len(ms) :
                             /\ ms[i].s = key
                             /\ \A j \in 1..Len(ms) : ms[j].s = key => j <= i
         IN Object([n \in 1..Len(firsts) |->
                      Member(ms[firsts[n]].s, LoadValue(ms[last(ms[firsts[n]].s)].items[1]))])

json_loads(text) == LoadValue(text.doc)

\* json.dumps(sort_keys=True): the entries of every dict in key order, the
\* elements of every list in their own order.
RECURSIVE SortKeys_top_level_only(_, _)
SortKeys_top_level_only(data, depth) ==
    IF data.k = "scalar" \/ depth > 0 THEN data
    ELSE IF data.k = "array"
    THEN Array([i \in 1..Len(data.items) |-> SortKeys_top_level_only(data.items[i], depth)])
    ELSE LET ms == data.items
             ranks == SetToSortedSeq({KeyRank(ms[i].s) : i \in 1..Len(ms)})
             at(r) == CHOOSE i \in 1..Len(ms) : KeyRank(ms[i].s) = r
         IN Object([n \in 1..Len(ranks) |->
                      Member(KeysSorted[ranks[n]],
                             SortKeys_top_level_only(ms[at(ranks[n])].items[1], depth + 1))])

RECURSIVE SortKeys(_, _)
SortKeys(data, depth) ==
    IF data.k = "scalar" THEN data
    ELSE IF data.k = "array"
    THEN Array([i \in 1..Len(data.items) |-> SortKeys(data.items[i], depth)])
    ELSE LET ms == data.items
             ranks == SetToSortedSeq({KeyRank(ms[i].s) : i \in 1..Len(ms)})
             at(r) == CHOOSE i \in 1..Len(ms) : KeyRank(ms[i].s) = r
         IN Object([n \in 1..Len(ranks) |->
                      Member(KeysSorted[ranks[n]],
                             SortKeys(ms[at(ranks[n])].items[1], depth + 1))])

json_dumps_reverses_members(data) ==
    JsonText("indent2", [data EXCEPT !.items = Reverse(data.items)])

json_dumps(data) == JsonText("indent2", SortKeys(data, 0))

normalize_json_blanks_unparseable(json_str) ==
    IF json_str.json THEN json_dumps(json_loads(json_str)) ELSE RawText(<< >>)

normalize_json(json_str) ==
    IF json_str.json THEN json_dumps(json_loads(json_str)) ELSE json_str

\* The lines of a text written by json.dumps(indent=2), each a tuple of
\* tokens: the indentation, the key of a member, the value or bracket, the
\* separating comma.
RECURSIVE Flatten(_)
Flatten(seqs) == IF seqs = << >> THEN << >> ELSE Head(seqs) \o Flatten(Tail(seqs))

Indent(depth) == [i \in 1..depth |-> "  "]

RECURSIVE Lines(_, _, _, _)
Lines(node, depth, lead, trail) ==
    LET open == IF node.k = "array" THEN "[" ELSE "{"
        close == IF node.k = "array" THEN "]" ELSE "}"
        n == Len(node.items)
        value(i) == IF node.k = "array" THEN node.items[i] ELSE node.items[i].items[1]
        key(i) == IF node.k = "array" THEN << >> ELSE <<node.items[i].s, ": ">>
    IN IF node.k = "scalar" THEN <<Indent(depth) \o lead \o <<node.s, trail>>>>
       ELSE IF n = 0 THEN <<Indent(depth) \o lead \o <<open, close, trail>>>>
       ELSE <<Indent(depth) \o lead \o <<open>>>>
            \o Flatten([i \in 1..n |->
                          Lines(value(i), depth + 1, key(i), IF i < n THEN "," ELSE "")])
            \o <<Indent(depth) \o <<close, trail>>>>

\* str.splitlines(keepends=True): every line keeps its "\n", but for the
\* last line of a text that does not end with one (json.dumps writes none).
splitlines(text) ==
    LET lines == IF text.json
                 THEN Lines(text.doc, 0, << >>, "")
                 ELSE [i \in 1..Len(text.doc.items) |-> <<text.doc.items[i].s>>]
    IN [i \in 1..Len(lines) |-> IF i < Len(lines) THEN lines[i] \o <<"\n">> ELSE lines[i]]

(***************************************************************************)
(* difflib.unified_diff(a, b, fromfile="TypeScript", tofile="Python",      *)
(* lineterm="") as the standard library computes it, with difflib's        *)
(* 0-based, half-open indices.  No line is junk, and the texts are far     *)
(* below the 200 lines at which difflib starts to ignore popular lines.    *)
(***************************************************************************)
Min(x, y) == IF x < y THEN x ELSE y
Max(x, y) == IF x > y THEN x ELSE y

\* The length of the run of equal lines that starts at a[i] and b[j].
RECURSIVE MatchLen(_, _, _, _, _, _)
MatchLen(a, b, i, j, ahi, bhi) ==
    IF i < ahi /\ j < bhi /\ a[i + 1] = b[j + 1]
    THEN 1 + MatchLen(a, b, i + 1, j + 1, ahi, bhi)
    ELSE 0

\* SequenceMatcher.find_longest_match: the longest block a[i:i+k] = b[j:j+k]
\* inside a[alo:ahi] and b[blo:bhi]; of the longest blocks the one that
\* starts earliest in a, and of those the one that starts earliest in b.
find_longest_match(a, b, alo, ahi, blo, bhi) ==
    LET len == [i \in alo..(ahi - 1) |-> [j \in blo..(bhi - 1) |-> MatchLen(a, b, i, j, ahi, bhi)]]
        sizes == {len[i][j] : i \in alo..(ahi - 1), j \in blo..(bhi - 1)}
        k == IF sizes = {} THEN 0 ELSE CHOOSE x \in sizes : \A y \in sizes : y <= x
        besti == CHOOSE i \in alo..(ahi - 1) :
                    /\ \E j \in blo..(bhi - 1) : len[i][j] = k
                    /\ \A i2 \in alo..(i - 1) : \A j \in blo..(bhi - 1) : len[i2][j] # k
        bestj == CHOOSE j \in blo..(bhi - 1) :
                    /\ len[besti][j] = k
                    /\ \A j2 \in blo..(j - 1) : len[besti][j2] # k
    IN IF k = 0 THEN [i |-> alo, j |-> blo, size |-> 0]
       ELSE [i |-> besti, j |-> bestj, size |-> k]

\* SequenceMatcher.get_matching_blocks, without its closing (la, lb, 0): the
\* longest block, then the same to its left and to its right.
RECURSIVE matching_blocks(_, _, _, _, _, _)
matching_blocks(a, b, alo, ahi, blo, bhi) ==
    LET m == find_longest_match(a, b, alo, ahi, blo, bhi)
    IN IF m.size = 0 THEN << >>
       ELSE (IF alo < m.i /\ blo < m.j
             THEN matching_blocks(a, b, alo, m.i, blo, m.j) ELSE << >>)
            \o <<m>>
            \o (IF m.i + m.size < ahi /\ m.j + m.size < bhi
                THEN matching_blocks(a, b, m.i + m.size, ahi, m.j + m.size, bhi) ELSE << >>)

Opcode(tag, i1, i2, j1, j2) == [tag |-> tag, i1 |-> i1, i2 |-> i2, j1 |-> j1, j2 |-> j2]

\* SequenceMatcher.get_opcodes: what turns a into b, block by block.
RECURSIVE opcodes(_, _, _)
opcodes(blocks, i, j) ==
    IF blocks = << >> THEN << >>
    ELSE LET m == Head(blocks)
             tag == IF i < m.i /\ j < m.j THEN "replace"
                    ELSE IF i < m.i THEN "delete"
                    ELSE IF j < m.j THEN "insert"
                    ELSE ""
         IN (IF tag # "" THEN <<Opcode(tag, i, m.i, j, m.j)>> ELSE << >>)
            \o (IF m.size > 0
                THEN <<Opcode("equal", m.i, m.i + m.size, m.j, m.j + m.size)>> ELSE << >>)
            \o opcodes(Tail(blocks), m.i + m.size, m.j + m.size)

get_opcodes(a, b) ==
    opcodes(matching_blocks(a, b, 0, Len(a), 0, Len(b))
              \o <<[i |-> Len(a), j |-> Len(b), size |-> 0]>>, 0, 0)

\* The loop of SequenceMatcher.get_grouped_opcodes: a run of more than 2n
\* equal lines ends one group and starts the next.
RECURSIVE grouped(_, _, _)
grouped(codes, group, n) ==
    IF codes = << >>
    THEN IF group # << >> /\ ~(Len(group) = 1 /\ group[1].tag = "equal")
         THEN <<group>> ELSE << >>
    ELSE LET c == Head(codes)
         IN IF c.tag = "equal" /\ c.i2 - c.i1 > n + n
            THEN <<Append(group, Opcode(c.tag, c.i1, Min(c.i2, c.i1 + n),
                                        c.j1, Min(c.j2, c.j1 + n)))>>
                 \o grouped(Tail(codes),
                            <<Opcode(c.tag, Max(c.i1, c.i2 - n), c.i2,
                                     Max(c.j1, c.j2 - n), c.j2)>>, n)
            ELSE grouped(Tail(codes), Append(group, c), n)

\* The start of get_grouped_opcodes: an empty list of opcodes becomes one
\* equal block, and of the equal lines before the first change and after the
\* last one only n are kept.
codes_or_dummy(codes) == IF codes = << >> THEN <<Opcode("equal", 0, 1, 0, 1)>> ELSE codes

trim_first(codes, n) ==
    LET first == codes[1]
    IN IF first.tag = "equal"
       THEN <<Opcode(first.tag, Max(first.i1, first.i2 - n), first.i2,
                     Max(first.j1, first.j2 - n), first.j2)>> \o Tail(codes)
       ELSE codes

trim_last(codes, n) ==
    LET last == codes[Len(codes)]
    IN IF last.tag = "equal"
       THEN SubSeq(codes, 1, Len(codes) - 1)
            \o <<Opcode(last.tag, last.i1, Min(last.i2, last.i1 + n),
                        last.j1, Min(last.j2, last.j1 + n))>>
       ELSE codes

get_grouped_opcodes(a, b, n) ==
    grouped(trim_last(trim_first(codes_or_dummy(get_opcodes(a, b)), n), n), << >>, n)

\* The decimal digits of n >= 0 as '{}'.format(n) writes them, a digit to a
\* token.
RECURSIVE decimal(_)
decimal(n) ==
    LET digit == <<"0", "1", "2", "3", "4", "5", "6", "7", "8", "9">>
    IN IF n < 10 THEN <<digit[n + 1]>> ELSE decimal(n \div 10) \o <<digit[(n % 10) + 1]>>

\* difflib._format_range_unified
format_range_unified(start, stop) ==
    LET beginning == start + 1
        length == stop - start
    IN IF length = 1 THEN decimal(beginning)
       ELSE decimal(IF length = 0 THEN beginning - 1 ELSE beginning) \o <<",">> \o decimal(length)

\* The lines of one group: its "@@" line, then for every block the equal
\* lines, or the "-" lines of a followed by the "+" lines of b.
hunk_lines_drops_removed_lines(a, b, group) ==
    <<<<"@@ -">> \o format_range_unified(group[1].i1, group[Len(group)].i2)
      \o <<" +">> \o format_range_unified(group[1].j1, group[Len(group)].j2) \o <<" @@">>>>
    \o Flatten([g \in 1..Len(group) |->
          LET c == group[g]
          IN IF c.tag = "equal"
             THEN [i \in 1..(c.i2 - c.i1) |-> <<" ">> \o a[c.i1 + i]]
             ELSE (IF c.tag \in {"replace", "insert"}
                   THEN [j \in 1..(c.j2 - c.j1) |-> <<"+">> \o b[c.j1 + j]] ELSE << >>)])

hunk_lines(a, b, group) ==
    <<<<"@@ -">> \o format_range_unified(group[1].i1, group[Len(group)].i2)
      \o <<" +">> \o format_range_unified(group[1].j1, group[Len(group)].j2) \o <<" @@">>>>
    \o Flatten([g \in 1..Len(group) |->
          LET c == group[g]
          IN IF c.tag = "equal"
             THEN [i \in 1..(c.i2 - c.i1) |-> <<" ">> \o a[c.i1 + i]]
             ELSE (IF c.tag \in {"replace", "delete"}
                   THEN [i \in 1..(c.i2 - c.i1) |-> <<"-">> \o a[c.i1 + i]] ELSE << >>)
                  \o (IF c.tag \in {"replace", "insert"}
                      THEN [j \in 1..(c.j2 - c.j1) |-> <<"+">> \o b[c.j1 + j]] ELSE << >>)])

\* The context kept around a change (the default n of unified_diff).
ContextLines == 3

\* The two file lines, then the lines of every group; nothing when the texts
\* are equal.
format_groups_drops_removed_lines(a, b, groups) ==
    IF groups = << >> THEN << >>
    ELSE <<<<"--- TypeScript">>, <<"+++ Python">>>>
         \o Flatten([g \in 1..Len(groups) |-> hunk_lines_drops_removed_lines(a, b, groups[g])])

format_groups(a, b, groups) ==
    IF groups = << >> THEN << >>
    ELSE <<<<"--- TypeScript">>, <<"+++ Python">>>>
         \o Flatten([g \in 1..Len(groups) |-> hunk_lines(a, b, groups[g])])

unified_diff_drops_removed_lines(a, b) ==
    format_groups_drops_removed_lines(a, b, get_grouped_opcodes(a, b, ContextLines))

unified_diff(a, b) == format_groups(a, b, get_grouped_opcodes(a, b, ContextLines))

compare_templates_rejects_unparseable(ts_template, py_template) ==
    LET ts_normalized == normalize_json(ts_template)
        py_normalized == normalize_json(py_template)
    IN IF ts_template.json /\ py_template.json /\ ts_normalized = py_normalized
       THEN [match |-> TRUE, diff |-> << >>]
       ELSE [match |-> FALSE,
             diff |-> unified_diff(splitlines(ts_normalized), splitlines(py_normalized))]

compare_templates(ts_template, py_template) ==
    LET ts_normalized == normalize_json(ts_template)
        py_normalized == normalize_json(py_template)
    IN IF ts_normalized = py_normalized
       THEN [match |-> TRUE, diff |-> << >>]
       ELSE [match |-> FALSE,
             diff |-> unified_diff(splitlines(ts_normalized), splitlines(py_normalized))]

(***************************************************************************)
(* synth_example.  env is what the machine answers to each step:           *)
(*   dep, local, synth : outcome of the three commands                     *)
(*   artifacts         : list(dist_dir.glob("*.tgz" / "*.whl"))            *)
(*   cdk_out           : cdk.out exists                                    *)
(*   top, nested       : list(cdk_out.glob(..)), list(cdk_out.rglob(..)),  *)
(*                       in directory-listing order; a file is             *)
(*                       [path, readable, text]                            *)
(***************************************************************************)
StepResult(raised, failed, error, steps) ==
    [raised |-> raised, failed |-> failed, error |-> error, steps |-> steps]

install_dependencies_ignores_exit_code(example_path, lang, env) ==
    LET r == run_command(env.dep)
        op == IF lang = "typescript" THEN "npm install" ELSE "pip install -r"
    IN StepResult(r.raised, FALSE, << >>, <<Ev(op, example_path, r.code, r.err, << >>)>>)

install_dependencies_drops_stderr(example_path, lang, env) ==
    LET r == run_command(env.dep)
        op == IF lang = "typescript" THEN "npm install" ELSE "pip install -r"
        prefix == IF lang = "typescript" THEN "npm install failed: "
                  ELSE "pip install requirements failed: "
    IN StepResult(r.raised, r.code # 0, <<prefix>> \o r.out,
                  <<Ev(op, example_path, r.code, r.err, << >>)>>)

install_dependencies(example_path, lang, env) ==
    LET r == run_command(env.dep)
        op == IF lang = "typescript" THEN "npm install" ELSE "pip install -r"
        prefix == IF lang = "typescript" THEN "npm install failed: "
                  ELSE "pip install requirements failed: "
    IN StepResult(r.raised, r.code # 0,
                  <<prefix>> \o r.err \o <<"\n">> \o r.out,
                  <<Ev(op, example_path, r.code, r.err, << >>)>>)

install_local_package_tolerates_missing_artifact(example_path, lang, env) ==
    LET r == run_command(env.local)
        glob == Ev(IF lang = "typescript" THEN "glob dist/js/*.tgz"
                   ELSE "glob dist/python/*.whl",
                   example_path, IF env.artifacts = << >> THEN 1 ELSE 0, << >>,
                   env.artifacts)
        op == IF lang = "typescript" THEN "npm install --no-save" ELSE "pip install"
        prefix == IF lang = "typescript" THEN "npm install local package failed: "
                  ELSE "pip install local package failed: "
    IN StepResult(r.raised, r.code # 0,
                  <<prefix>> \o r.err \o <<"\n">> \o r.out,
                  <<glob, Ev(op, example_path, r.code, r.err, env.artifacts)>>)

install_local_package_installs_first_artifact(example_path, lang, env) ==
    LET r == run_command(env.local)
        glob == Ev(IF lang = "typescript" THEN "glob dist/js/*.tgz"
                   ELSE "glob dist/python/*.whl",
                   example_path, IF env.artifacts = << >> THEN 1 ELSE 0, << >>,
                   env.artifacts)
        op == IF lang = "typescript" THEN "npm install --no-save" ELSE "pip install"
        prefix == IF lang = "typescript" THEN "npm install local package failed: "
                  ELSE "pip install local package failed: "
    IN IF env.artifacts = << >>
       THEN StepResult(FALSE, TRUE,
                       IF lang = "typescript"
                       THEN <<"No dist .tgz files found in ", "dist/js">>
                       ELSE <<"No .whl files found in ", "dist/python">>,
                       <<glob>>)
       ELSE StepResult(r.raised, r.code # 0,
                       <<prefix>> \o r.err \o <<"\n">> \o r.out,
                       <<glob, Ev(op, example_path, r.code, r.err, <<env.artifacts[1]>>)>>)

install_local_package(example_path, lang, env) ==
    LET r == run_command(env.local)
        glob == Ev(IF lang = "typescript" THEN "glob dist/js/*.tgz"
                   ELSE "glob dist/python/*.whl",
                   example_path, IF env.artifacts = << >> THEN 1 ELSE 0, << >>,
                   env.artifacts)
        op == IF lang = "typescript" THEN "npm install --no-save" ELSE "pip install"
        prefix == IF lang = "typescript" THEN "npm install local package failed: "
                  ELSE "pip install local package failed: "
    IN IF env.artifacts = << >>
       THEN StepResult(FALSE, TRUE,
                       IF lang = "typescript"
                       THEN <<"No dist .tgz files found in ", "dist/js">>
                       ELSE <<"No .whl files found in ", "dist/python">>,
                       <<glob>>)
       ELSE StepResult(r.raised, r.code # 0,
                       <<prefix>> \o r.err \o <<"\n">> \o r.out,
                       <<glob, Ev(op, example_path, r.code, r.err, env.artifacts)>>)

run_cdk_synth(example_path, env) ==
    LET r == run_command(env.synth)
    IN StepResult(r.raised, r.code # 0,
                  <<"cdk synth failed: ">> \o r.err \o <<"\n">> \o r.out,
                  <<Ev("cdk synth", example_path, r.code, r.err, << >>)>>)

find_template_searches_immediate_children_only(example_path, env) ==
    LET template_files == env.top
        step == Ev("find template", example_path,
                   IF env.cdk_out /\ template_files # << >> THEN 0 ELSE 1, << >>,
                   IF env.cdk_out THEN [i \in 1..Len(template_files) |-> template_files[i].path]
                   ELSE << >>)
    IN IF ~env.cdk_out
       THEN [failed |-> TRUE, error |-> <<"cdk.out directory not found">>,
             file |-> None, steps |-> <<step>>]
       ELSE IF template_files = << >>
       THEN [failed |-> TRUE, error |-> <<"No template.json file found in cdk.out">>,
             file |-> None, steps |-> <<step>>]
       ELSE [failed |-> FALSE, error |-> << >>,
             file |-> <<template_files[1]>>, steps |-> <<step>>]

find_template(example_path, env) ==
    LET template_files == IF env.top # << >> THEN env.top ELSE env.nested
        step == Ev("find template", example_path,
                   IF env.cdk_out /\ template_files # << >> THEN 0 ELSE 1, << >>,
                   IF env.cdk_out THEN [i \in 1..Len(template_files) |-> template_files[i].path]
                   ELSE << >>)
    IN IF ~env.cdk_out
       THEN [failed |-> TRUE, error |-> <<"cdk.out directory not found">>,
             file |-> None, steps |-> <<step>>]
       ELSE IF template_files = << >>
       THEN [failed |-> TRUE, error |-> <<"No template.json file found in cdk.out">>,
             file |-> None, steps |-> <<step>>]
       ELSE [failed |-> FALSE, error |-> << >>,
             file |-> <<template_files[1]>>, steps |-> <<step>>]

read_template(example_path, template_path) ==
    LET step == Ev("read template", example_path,
                   IF template_path.readable THEN 0 ELSE 1, << >>, <<template_path.path>>)
    IN IF template_path.readable
       THEN [success |-> TRUE, template |-> <<template_path.text>>, error |-> << >>,
             steps |-> <<step>>]
       ELSE [success |-> FALSE, template |-> None,
             error |-> <<"Failed to read template: ", "IOError">>, steps |-> <<step>>]

SynthReturn(raised, success, template, error, steps) ==
    [raised |-> raised, success |-> success, template |-> template,
     error |-> error, steps |-> steps]

synth_example(example_path, lang, env) ==
    LET s1 == install_dependencies(example_path, lang, env)
        s2 == install_local_package(example_path, lang, env)
        s3 == run_cdk_synth(example_path, env)
        s4 == find_template(example_path, env)
        s5 == read_template(example_path, s4.file[1])
    IN IF s1.raised THEN SynthReturn(TRUE, FALSE, None, << >>, s1.steps)
       ELSE IF s1.failed THEN SynthReturn(FALSE, FALSE, None, s1.error, s1.steps)
       ELSE IF s2.raised THEN SynthReturn(TRUE, FALSE, None, << >>, s1.steps \o s2.steps)
       ELSE IF s2.failed
       THEN SynthReturn(FALSE, FALSE, None, s2.error, s1.steps \o s2.steps)
       ELSE IF s3.raised
       THEN SynthReturn(TRUE, FALSE, None, << >>, s1.steps \o s2.steps \o s3.steps)
       ELSE IF s3.failed
       THEN SynthReturn(FALSE, FALSE, None, s3.error, s1.steps \o s2.steps \o s3.steps)
       ELSE IF s4.failed
       THEN SynthReturn(FALSE, FALSE, None, s4.error,
                        s1.steps \o s2.steps \o s3.steps \o s4.steps)
       ELSE SynthReturn(FALSE, s5.success, s5.template, s5.error,
                        s1.steps \o s2.steps \o s3.steps \o s4.steps \o s5.steps)

(***************************************************************************)
(* deploy_example, destroy_example.  proc is the outcome of the Popen:     *)
(* kind "exit" with the lines read from the pipe in out, or "oserror".     *)
(***************************************************************************)
deploy_example_hides_launch_failure(example_path, proc) ==
    IF proc.kind = "exit"
    THEN [success |-> proc.code = 0,
          error |-> IF proc.code # 0 THEN <<"cdk deploy failed:\n">> \o proc.out ELSE << >>,
          steps |-> <<Ev("cdk deploy", example_path, proc.code, << >>, << >>)>>]
    ELSE [success |-> TRUE,
          error |-> << >>,
          steps |-> <<Ev("cdk deploy", example_path, 1, proc.err, << >>)>>]

deploy_example(example_path, proc) ==
    IF proc.kind = "exit"
    THEN [success |-> proc.code = 0,
          error |-> IF proc.code # 0 THEN <<"cdk deploy failed:\n">> \o proc.out ELSE << >>,
          steps |-> <<Ev("cdk deploy", example_path, proc.code, << >>, << >>)>>]
    ELSE [success |-> FALSE,
          error |-> <<"Deployment error: ">> \o proc.err,
          steps |-> <<Ev("cdk deploy", example_path, 1, proc.err, << >>)>>]

destroy_example(example_path, proc) ==
    IF proc.kind = "exit"
    THEN [success |-> proc.code = 0,
          error |-> IF proc.code # 0 THEN <<"cdk destroy failed:\n">> \o proc.out ELSE << >>,
          steps |-> <<Ev("cdk destroy", example_path, proc.code, << >>, << >>)>>]
    ELSE [success |-> FALSE,
          error |-> <<"Destruction error: ">> \o proc.err,
          steps |-> <<Ev("cdk destroy", example_path, 1, proc.err, << >>)>>]

(***************************************************************************)
(* Inputs of a run of main()                                               *)
(***************************************************************************)
OkProc == ExitProc(0, <<"out">>, << >>)
FailProc == ExitProc(1, <<"out">>, <<"stderr">>)
MainProcs == {OkProc, FailProc}
PopenProcs == {ExitProc(0, <<"line">>, << >>), ExitProc(1, <<"line">>, << >>),
               OSErrorProc(<<"OSError">>), HangProc}

TemplateX ==
    JsonText("indent2", Object(<<Member("Resources", Object(<<Member("Type", Scalar("X"))>>)),
                                 Member("Type", Scalar("T"))>>))
TemplateXr ==
    JsonText("compact", Object(<<Member("Type", Scalar("T")),
                                 Member("Resources", Object(<<Member("Type", Scalar("X"))>>))>>))
TemplateY ==
    JsonText("indent2", Object(<<Member("Resources", Object(<<Member("Type", Scalar("Y"))>>)),
                                 Member("Type", Scalar("T"))>>))
MainTemplates(lang) == IF lang = "typescript" THEN {TemplateX} ELSE {TemplateXr, TemplateY}

File(path, readable, text) == [path |-> path, readable |-> readable, text |-> text]

OkEnv(text) ==
    [dep |-> OkProc, artifacts |-> <<"artifact">>, local |-> OkProc, synth |-> OkProc,
     cdk_out |-> TRUE, top |-> <<File("Stack.template.json", TRUE, text)>>, nested |-> << >>]

\* The failures a run of main() meets: the first and a later step of
\* synth_example.  SynthEnvs below holds every kind of failure.
FailingEnvs ==
    {[OkEnv(TemplateX) EXCEPT !.dep = FailProc],
     [OkEnv(TemplateX) EXCEPT !.synth = FailProc]}

\* dist/js and dist/python are empty: the package was never built.
NoArtifactEnv == [OkEnv(TemplateX) EXCEPT !.artifacts = << >>]

\* The answers synth_example can get in a run of main().  They do not depend
\* on what the probes of check_prerequisites found: those only print a
\* warning, and synth_example runs its own commands.
MainSynthEnvs(lang) ==
    IF tools.dist = "none"
    THEN {NoArtifactEnv, [OkEnv(TemplateX) EXCEPT !.dep = FailProc]}
    ELSE {OkEnv(t) : t \in MainTemplates(lang)} \cup FailingEnvs

ToolStates ==
    {[npm |-> "ok", python |-> "python", dist |-> "built"],
     [npm |-> "broken", python |-> "python3", dist |-> "built"],
     [npm |-> "ok", python |-> "none", dist |-> "built"],
     [npm |-> "ok", python |-> "python", dist |-> "none"]}

Entry(lang, name) == [name |-> name, is_dir |-> TRUE, files |-> {AppFile(lang)}]

\* Names only matter through their sort order, so a tree's names are 1..k.
\* Each variant is sorted on its own and phase 2 visits the names in hash
\* order, so exchanging two neighbouring names, one of a Python-only and one
\* of a TypeScript-only example, changes nothing main() does: of two such
\* trees the one with the TypeScript name first is kept.
MainTrees ==
    {[l \in Langs |-> [exists |-> TRUE,
                       entries |-> {Entry(l, n) : n \in (IF l = "typescript" THEN x[1] ELSE x[2])}]] :
        x \in {y \in (SUBSET Names) \X (SUBSET Names) :
                 /\ Cardinality(y[1]) + Cardinality(y[2]) <= MaxExamples
                 /\ \E k \in 0..MaxName : y[1] \cup y[2] = 1..k
                 /\ \A n \in y[2] \ y[1] : (n + 1) \notin y[1] \ y[2]}}

MainArgs ==
    [skip_deploy : BOOLEAN, skip_package : BOOLEAN,
     examples : {None} \cup {<<{n}>> : n \in Names}]

EmptyDict == [n \in {} |-> TemplateX]
DictSet(d, k, v) == [n \in (DOMAIN d) \cup {k} |-> IF n = k THEN v ELSE d[n]]

Init ==
    /\ pc = "load"
    /\ args \in MainArgs
    /\ tree \in MainTrees
    /\ tools \in ToolStates
    \* the build steps, when they run and succeed, leave the artifacts in dist/
    /\ tools.dist = "none" => args.skip_package
    /\ ts_examples = << >> /\ py_examples = << >> /\ example_names = {}
    /\ ts_templates = EmptyDict /\ py_templates = EmptyDict
    /\ synth_errors = << >> /\ comparison_errors = << >>
    /\ deploy_errors = << >> /\ destroy_errors = << >>
    /\ successful_ts_examples = << >>
    /\ idx = 0 /\ todo = {}
    /\ exit_code = -1
    /\ log = << >> /\ console = << >>
    /\ synth_in = << >> /\ synth_out = << >>

(***************************************************************************)
(* Module level: the tool lookup that runs when the script is loaded.      *)
(* print_colored and Colors are defined below the lookup, so a missing     *)
(* tool ends the process with an uncaught NameError (exit status 1).       *)
(***************************************************************************)
Abort(code) == /\ pc' = "aborted" /\ exit_code' = code

ModuleLoad ==
    /\ pc = "load"
    /\ \E missing \in {"none", "cdk", "npm", "yarn"} :
          LET looked == IF missing = "cdk" THEN <<"cdk">>
                        ELSE IF missing = "npm" THEN <<"cdk", "npm">>
                        ELSE <<"cdk", "npm", "yarn">>
          IN /\ log' = log \o [i \in 1..Len(looked) |->
                                 Ev("shutil.which", NoEx,
                                    IF looked[i] = missing THEN 1 ELSE 0, << >>, <<looked[i]>>)]
             /\ IF missing = "none"
                THEN /\ pc' = "main"
                     /\ UNCHANGED <<exit_code, console>>
                ELSE /\ pc' = "crashed"
                     /\ exit_code' = 1
                     /\ console' = console \o <<"NameError: name 'print_colored' is not defined">>
    /\ UNCHANGED <<args, tree, tools, ts_examples, py_examples, example_names,
                   ts_templates, py_templates, synth_errors, comparison_errors,
                   deploy_errors, destroy_errors, successful_ts_examples, idx, todo,
                   synth_in, synth_out>>

(***************************************************************************)
(* check_prerequisites and the head of main()                              *)
(***************************************************************************)
check_prerequisites_ignores_cdk(cdk) ==
    LET c == run_command(cdk)
        n == run_command(IF tools.npm = "ok" THEN OkProc ELSE FailProc)
        p == run_command(IF tools.python = "python" THEN OkProc ELSE FailProc)
        p3 == run_command(IF tools.python = "python3" THEN OkProc ELSE FailProc)
        python_code == IF p.code # 0 THEN p3.code ELSE p.code
    IN [ok |-> TRUE,
        steps |-> <<Ev("cdk --version", NoEx, c.code, c.err, << >>),
                    Ev("npm --version", NoEx, n.code, n.err, << >>),
                    Ev("python --version", NoEx, p.code, p.err, << >>)>>
                  \o (IF p.code # 0
                      THEN <<Ev("python3 --version", NoEx, p3.code, p3.err, << >>)>>
                      ELSE << >>),
        printed |-> <<"Checking prerequisites...", "CDK found",
                      IF n.code # 0 THEN "npm not found" ELSE "npm found",
                      IF python_code # 0 THEN "Python not found" ELSE "Python found">>]

check_prerequisites_npm_is_fatal(cdk) ==
    LET c == run_command(cdk)
        n == run_command(IF tools.npm = "ok" THEN OkProc ELSE FailProc)
        p == run_command(IF tools.python = "python" THEN OkProc ELSE FailProc)
        p3 == run_command(IF tools.python = "python3" THEN OkProc ELSE FailProc)
        python_code == IF p.code # 0 THEN p3.code ELSE p.code
    IN IF c.code # 0
       THEN [ok |-> FALSE,
             steps |-> <<Ev("cdk --version", NoEx, c.code, c.err, << >>)>>,
             printed |-> <<"Checking prerequisites...", "CDK not found">>]
       ELSE IF n.code # 0
       THEN [ok |-> FALSE,
             steps |-> <<Ev("cdk --version", NoEx, c.code, c.err, << >>),
                         Ev("npm --version", NoEx, n.code, n.err, << >>)>>,
             printed |-> <<"Checking prerequisites...", "CDK found", "npm not found">>]
       ELSE [ok |-> TRUE,
             steps |-> <<Ev("cdk --version", NoEx, c.code, c.err, << >>),
                         Ev("npm --version", NoEx, n.code, n.err, << >>),
                         Ev("python --version", NoEx, p.code, p.err, << >>)>>
                       \o (IF p.code # 0
                           THEN <<Ev("python3 --version", NoEx, p3.code, p3.err, << >>)>>
                           ELSE << >>),
             printed |-> <<"Checking prerequisites...", "CDK found",
                           IF n.code # 0 THEN "npm not found" ELSE "npm found",
                           IF python_code # 0 THEN "Python not found" ELSE "Python found">>]

check_prerequisites(cdk) ==
    LET c == run_command(cdk)
        n == run_command(IF tools.npm = "ok" THEN OkProc ELSE FailProc)
        p == run_command(IF tools.python = "python" THEN OkProc ELSE FailProc)
        p3 == run_command(IF tools.python = "python3" THEN OkProc ELSE FailProc)
        python_code == IF p.code # 0 THEN p3.code ELSE p.code
    IN IF c.code # 0
       THEN [ok |-> FALSE,
             steps |-> <<Ev("cdk --version", NoEx, c.code, c.err, << >>)>>,
             printed |-> <<"Checking prerequisites...", "CDK not found">>]
       ELSE [ok |-> TRUE,
             steps |-> <<Ev("cdk --version", NoEx, c.code, c.err, << >>),
                         Ev("npm --version", NoEx, n.code, n.err, << >>),
                         Ev("python --version", NoEx, p.code, p.err, << >>)>>
                       \o (IF p.code # 0
                           THEN <<Ev("python3 --version", NoEx, p3.code, p3.err, << >>)>>
                           ELSE << >>),
             printed |-> <<"Checking prerequisites...", "CDK found",
                           IF n.code # 0 THEN "npm not found" ELSE "npm found",
                           IF python_code # 0 THEN "Python not found" ELSE "Python found">>]

AfterPrerequisites_always_builds == "build"

AfterPrerequisites_skips_build == "find_examples"

AfterPrerequisites == IF args.skip_package THEN "find_examples" ELSE "build"

CheckPrerequisites ==
    /\ pc = "main"
    /\ \E cdk \in MainProcs :
          LET r == check_prerequisites(cdk)
          IN /\ log' = log \o r.steps
             /\ IF ~r.ok
                THEN /\ Abort(1)
                     /\ console' = console \o r.printed \o <<"Prerequisites check failed">>
                     /\ idx' = idx
                ELSE /\ pc' = AfterPrerequisites
                     /\ console' = console \o r.printed
                     /\ exit_code' = exit_code
                     /\ idx' = 1
    /\ UNCHANGED <<args, tree, tools, ts_examples, py_examples, example_names,
                   ts_templates, py_templates, synth_errors, comparison_errors,
                   deploy_errors, destroy_errors, successful_ts_examples, todo,
                   synth_in, synth_out>>

(***************************************************************************)
(* Building the package: four yarn commands, each fatal on failure         *)
(***************************************************************************)
BuildSteps_compiles_before_bundling == <<"compile", "bundle", "package:js", "package:python">>

BuildSteps == <<"bundle", "compile", "package:js", "package:python">>

AfterBuild == "find_examples"

BuildPackage ==
    /\ pc = "build"
    /\ \E proc \in MainProcs :
          LET r == run_command(proc)
          IN /\ log' = log \o <<Ev("yarn run", NoEx, r.code, r.err, <<BuildSteps[idx]>>)>>
             /\ IF r.code # 0
                THEN /\ Abort(1)
                     /\ console' = console \o
                            (IF idx = 1 THEN <<"Building Package">> ELSE << >>) \o
                            <<"Package building failed. Stopping.">>
                     /\ idx' = idx
                ELSE /\ console' = console \o (IF idx = 1 THEN <<"Building Package">> ELSE << >>)
                     /\ exit_code' = exit_code
                     /\ IF idx < Len(BuildSteps)
                        THEN pc' = pc /\ idx' = idx + 1
                        ELSE pc' = AfterBuild /\ idx' = 1
    /\ UNCHANGED <<args, tree, tools, ts_examples, py_examples, example_names,
                   ts_templates, py_templates, synth_errors, comparison_errors,
                   deploy_errors, destroy_errors, successful_ts_examples, todo,
                   synth_in, synth_out>>

(***************************************************************************)
(* Finding the examples                                                    *)
(***************************************************************************)
SeqRange(s) == {s[i] : i \in 1..Len(s)}

NoExamples_in_either_variant(ts, py) == ts = << >> \/ py = << >>

NoExamples(ts, py) == ts = << >> /\ py = << >>

FindExamples ==
    /\ pc = "find_examples"
    /\ LET found == find_examples(tree, args.examples)
           ts == found["typescript"]
           py == found["python"]
       IN /\ log' = log \o <<Ev("find_examples", NoEx, 0, << >>, << >>)>>
          /\ ts_examples' = ts
          /\ py_examples' = py
          /\ IF NoExamples(ts, py)
             THEN /\ Abort(1)
                  /\ console' = console \o <<"Finding examples...",
                                             "No examples found matching the filter.">>
                  /\ UNCHANGED <<example_names, idx>>
             ELSE /\ example_names' = {PathName(ex) : ex \in SeqRange(ts) \cup SeqRange(py)}
                  /\ pc' = IF ts # << >> THEN "synth_ts" ELSE "synth_py"
                  /\ idx' = 1
                  /\ exit_code' = exit_code
                  /\ console' = console \o <<"Finding examples...",
                                             "Phase 1: Synthesizing Examples">>
    /\ UNCHANGED <<args, tree, tools, ts_templates, py_templates, synth_errors,
                   comparison_errors, deploy_errors, destroy_errors,
                   successful_ts_examples, todo, synth_in, synth_out>>

(***************************************************************************)
(* Phase 1: synthesize every example                                       *)
(***************************************************************************)
Crash == /\ pc' = "crashed" /\ exit_code' = 1

SynthCall(example, r) ==
    r.steps \o <<Ev("synth_example", example, IF r.success THEN 0 ELSE 1, r.error, << >>)>>

AfterSynthTypeScript_stops_on_failure ==
    IF synth_errors' = synth_errors /\ idx < Len(ts_examples)
    THEN /\ pc' = pc /\ idx' = idx + 1 /\ console' = console
    ELSE IF synth_errors' = synth_errors /\ py_examples # << >>
    THEN /\ pc' = "synth_py" /\ idx' = 1 /\ console' = console
    ELSE /\ pc' = "compare" /\ idx' = 1
         /\ console' = console \o <<"Phase 2: Comparing Templates">>

AfterSynthTypeScript_skips_python ==
    IF idx < Len(ts_examples)
    THEN /\ pc' = pc /\ idx' = idx + 1 /\ console' = console
    ELSE /\ pc' = "compare" /\ idx' = 1
         /\ console' = console \o <<"Phase 2: Comparing Templates">>

AfterSynthTypeScript ==
    IF idx < Len(ts_examples)
    THEN /\ pc' = pc /\ idx' = idx + 1 /\ console' = console
    ELSE IF py_examples # << >>
    THEN /\ pc' = "synth_py" /\ idx' = 1 /\ console' = console
    ELSE /\ pc' = "compare" /\ idx' = 1
         /\ console' = console \o <<"Phase 2: Comparing Templates">>

SynthTypeScript ==
    /\ pc = "synth_ts"
    /\ \E env \in MainSynthEnvs("typescript") :
          LET example == ts_examples[idx]
              r == synth_example(example, "typescript", env)
          IN /\ log' = log \o SynthCall(example, r)
             /\ IF r.raised
                THEN Crash /\ UNCHANGED <<ts_templates, synth_errors, idx, console>>
                ELSE /\ IF r.success
                        THEN /\ ts_templates' = DictSet(ts_templates, PathName(example), r.template[1])
                             /\ UNCHANGED synth_errors
                        ELSE /\ synth_errors' = Append(synth_errors, <<example, "TypeScript", r.error>>)
                             /\ UNCHANGED ts_templates
                     /\ exit_code' = exit_code
                     /\ AfterSynthTypeScript
    /\ todo' = IF pc' = "compare" THEN example_names ELSE todo
    /\ UNCHANGED <<args, tree, tools, ts_examples, py_examples, example_names,
                   py_templates, comparison_errors, deploy_errors, destroy_errors,
                   successful_ts_examples, synth_in, synth_out>>

SynthPython ==
    /\ pc = "synth_py"
    /\ \E env \in MainSynthEnvs("python") :
          LET example == py_examples[idx]
              r == synth_example(example, "python", env)
          IN /\ log' = log \o SynthCall(example, r)
             /\ IF r.raised
                THEN Crash /\ UNCHANGED <<py_templates, synth_errors, idx, console>>
                ELSE /\ IF r.success
                        THEN /\ py_templates' = DictSet(py_templates, PathName(example), r.template[1])
                             /\ UNCHANGED synth_errors
                        ELSE /\ synth_errors' = Append(synth_errors, <<example, "Python", r.error>>)
                             /\ UNCHANGED py_templates
                     /\ exit_code' = exit_code
                     /\ IF idx < Len(py_examples)
                        THEN /\ pc' = pc /\ idx' = idx + 1 /\ console' = console
                        ELSE /\ pc' = "compare" /\ idx' = 1
                             /\ console' = console \o <<"Phase 2: Comparing Templates">>
    /\ todo' = IF pc' = "compare" THEN example_names ELSE todo
    /\ UNCHANGED <<args, tree, tools, ts_examples, py_examples, example_names,
                   ts_templates, comparison_errors, deploy_errors, destroy_errors,
                   successful_ts_examples, synth_in, synth_out>>

(***************************************************************************)
(* Phase 2: compare the templates.  example_names is a set of str: the     *)
(* loop visits it in hash order, which the model leaves open.              *)
(***************************************************************************)
BothName(example_name) == [lang |-> "both", name |-> example_name]

SkipComparison_records_error(example_name, note) ==
    /\ console' = console \o <<note>>
    /\ log' = log \o <<Ev("skip comparison", BothName(example_name), 0, << >>, <<note>>)>>
    /\ comparison_errors' = Append(comparison_errors, <<example_name, << >>>>)

\* The continue branches of the loop: a warning is printed, nothing recorded.
SkipComparison(example_name, note) ==
    /\ console' = console \o <<note>>
    /\ log' = log \o <<Ev("skip comparison", BothName(example_name), 0, << >>, <<note>>)>>
    /\ comparison_errors' = comparison_errors

(***************************************************************************)
(* The mismatch branch of the phase 2 loop: the diff is recorded and its   *)
(* first lines are shown.  diff is the list compare_templates joins into   *)
(* the text it returns; parts is diff.split('\n'), a part being the tokens *)
(* between two newlines.                                                   *)
(***************************************************************************)
\* line.startswith(char): a part starts with the first token of an element
\* of the diff, or is empty.
startswith(part, char) ==
    /\ part # << >>
    /\ part[1] \in (IF char = "+" THEN {"+", "+++ Python"} ELSE {"-", "--- TypeScript"})

Colour(part) ==
    IF startswith(part, "+") THEN "GREEN"
    ELSE IF startswith(part, "-") THEN "RED"
    ELSE "plain"

report_mismatch_records_shown_lines(example_name, diff, parts) ==
    LET diff_lines == SubSeq(parts, 1, IF Len(parts) < DisplayedLines THEN Len(parts)
                                       ELSE DisplayedLines)
        remaining == Len(parts) - DisplayedLines
    IN [entry |-> <<example_name, SubSeq(diff, 1, IF Len(diff) < DisplayedLines THEN Len(diff)
                                                  ELSE DisplayedLines)>>,
        shown |-> [i \in 1..Len(diff_lines) |-> <<Colour(diff_lines[i]), diff_lines[i]>>],
        more |-> IF Len(parts) > DisplayedLines THEN <<remaining>> ELSE << >>]

report_mismatch(example_name, diff, parts) ==
    LET diff_lines == SubSeq(parts, 1, IF Len(parts) < DisplayedLines THEN Len(parts)
                                       ELSE DisplayedLines)
        remaining == Len(parts) - DisplayedLines
    IN [entry |-> <<example_name, diff>>,
        shown |-> [i \in 1..Len(diff_lines) |-> <<Colour(diff_lines[i]), diff_lines[i]>>],
        more |-> IF Len(parts) > DisplayedLines THEN <<remaining>> ELSE << >>]

CompareTemplates ==
    /\ pc = "compare"
    /\ \E example_name \in todo :
          /\ todo' = todo \ {example_name}
          /\ IF example_name \notin DOMAIN ts_templates
             THEN SkipComparison(example_name, "No TypeScript template")
             ELSE IF example_name \notin DOMAIN py_templates
             THEN SkipComparison(example_name, "No Python template")
             ELSE LET c == compare_templates(ts_templates[example_name],
                                             py_templates[example_name])
                  IN /\ log' = log \o <<Ev("compare_templates", BothName(example_name),
                                           IF c.match THEN 0 ELSE 1, << >>, << >>)>>
                     /\ IF c.match
                        THEN /\ console' = console \o <<"Templates match">>
                             /\ UNCHANGED comparison_errors
                        ELSE /\ console' = console \o <<"Templates differ">>
                             /\ comparison_errors' =
                                    Append(comparison_errors, <<example_name, c.diff>>)
    /\ pc' = IF todo' = {} THEN "phase3" ELSE pc
    /\ UNCHANGED <<args, tree, tools, ts_examples, py_examples, example_names,
                   ts_templates, py_templates, synth_errors, deploy_errors,
                   destroy_errors, successful_ts_examples, idx, exit_code,
                   synth_in, synth_out>>

(***************************************************************************)
(* Phase 3: deploy and destroy the TypeScript examples                     *)
(***************************************************************************)
SelectExamples(examples, names) ==
    SelectSeq(examples, LAMBDA ex : PathName(ex) \in names)

SuccessfulTsExamples_that_matched ==
    SelectExamples(ts_examples,
                   (DOMAIN ts_templates \cap DOMAIN py_templates)
                   \ {comparison_errors[k][1] : k \in 1..Len(comparison_errors)})

SuccessfulTsExamples_all == ts_examples

SuccessfulTsExamples == SelectExamples(ts_examples, DOMAIN ts_templates)

SkippedExamples_lists_every_example == ts_examples

SkippedExamples == SelectExamples(ts_examples, Names \ DOMAIN ts_templates)

BeginPhase3_resets_synth_errors ==
    /\ pc = "phase3"
    /\ synth_errors' = << >>
    /\ IF args.skip_deploy
       THEN /\ console' = console \o <<"Phase 3: Skipped (--skip-deploy flag)">>
            /\ pc' = "summary"
            /\ UNCHANGED <<successful_ts_examples, idx>>
       ELSE /\ console' = console \o <<"Phase 3: Deploying and Destroying TypeScript Examples">>
            /\ successful_ts_examples' = SuccessfulTsExamples
            /\ idx' = 1
            /\ pc' = IF successful_ts_examples' # << >> THEN "deploy" ELSE "report_skipped"
    /\ UNCHANGED <<args, tree, tools, ts_examples, py_examples, example_names,
                   ts_templates, py_templates, comparison_errors,
                   deploy_errors, destroy_errors, todo, exit_code, log,
                   synth_in, synth_out>>

BeginPhase3_ignores_skip_deploy ==
    /\ pc = "phase3"
    /\ console' = console \o
          <<IF args.skip_deploy THEN "Phase 3: Skipped (--skip-deploy flag)"
            ELSE "Phase 3: Deploying and Destroying TypeScript Examples">>
    /\ successful_ts_examples' = SuccessfulTsExamples
    /\ idx' = 1
    /\ pc' = IF successful_ts_examples' # << >> THEN "deploy" ELSE "report_skipped"
    /\ UNCHANGED <<args, tree, tools, ts_examples, py_examples, example_names,
                   ts_templates, py_templates, synth_errors, comparison_errors,
                   deploy_errors, destroy_errors, todo, exit_code, log,
                   synth_in, synth_out>>

BeginPhase3 ==
    /\ pc = "phase3"
    /\ IF args.skip_deploy
       THEN /\ console' = console \o <<"Phase 3: Skipped (--skip-deploy flag)">>
            /\ pc' = "summary"
            /\ UNCHANGED <<successful_ts_examples, idx>>
       ELSE /\ console' = console \o <<"Phase 3: Deploying and Destroying TypeScript Examples">>
            /\ successful_ts_examples' = SuccessfulTsExamples
            /\ idx' = 1
            /\ pc' = IF successful_ts_examples' # << >> THEN "deploy" ELSE "report_skipped"
    /\ UNCHANGED <<args, tree, tools, ts_examples, py_examples, example_names,
                   ts_templates, py_templates, synth_errors, comparison_errors,
                   deploy_errors, destroy_errors, todo, exit_code, log,
                   synth_in, synth_out>>

NextExample_retries_failed_deploy ==
    IF /\ log'[Len(log')].op = "cdk deploy" /\ log'[Len(log')].code # 0
       /\ \A i \in 1..Len(log) : log[i].op = "cdk deploy" => log[i].ex # log'[Len(log')].ex
    THEN pc' = "deploy" /\ idx' = idx
    ELSE IF idx < Len(successful_ts_examples)
    THEN pc' = "deploy" /\ idx' = idx + 1
    ELSE pc' = "report_skipped" /\ idx' = idx

NextExample ==
    IF idx < Len(successful_ts_examples)
    THEN pc' = "deploy" /\ idx' = idx + 1
    ELSE pc' = "report_skipped" /\ idx' = idx

\* Popen is read line by line and then waited for, without a timeout: a
\* process that never exits keeps the run in the read loop for ever.
Blocked(op, example) ==
    /\ log' = log \o <<Ev(op, example, -1, << >>, << >>)>>
    /\ pc' = "blocked"
    /\ idx' = idx

AfterDeploy_always_destroys(success) == pc' = "destroy" /\ idx' = idx

AfterDeploy_never_destroys(success) == NextExample

AfterDeploy(success) ==
    IF ~success THEN NextExample ELSE pc' = "destroy" /\ idx' = idx

Deploy ==
    /\ pc = "deploy"
    /\ \E proc \in PopenProcs :
          LET example == successful_ts_examples[idx]
              r == deploy_example(example, proc)
          IN IF proc.kind = "hang"
             THEN Blocked("cdk deploy", example) /\ UNCHANGED deploy_errors
             ELSE /\ log' = log \o r.steps
                  /\ deploy_errors' = IF ~r.success
                                      THEN Append(deploy_errors, <<example, r.error>>)
                                      ELSE deploy_errors
                  /\ AfterDeploy(r.success)
    /\ UNCHANGED <<args, tree, tools, ts_examples, py_examples, example_names,
                   ts_templates, py_templates, synth_errors, comparison_errors,
                   destroy_errors, successful_ts_examples, todo, exit_code, console,
                   synth_in, synth_out>>

RecordDestroy_keeps_first_error_only(example, r) ==
    /\ destroy_errors' = IF ~r.success /\ destroy_errors = << >>
                         THEN Append(destroy_errors, <<example, r.error>>)
                         ELSE destroy_errors
    /\ deploy_errors' = deploy_errors

RecordDestroy_as_deploy_error(example, r) ==
    /\ destroy_errors' = IF ~r.success
                         THEN Append(destroy_errors, <<example, r.error>>)
                         ELSE destroy_errors
    /\ deploy_errors' = IF ~r.success
                        THEN Append(deploy_errors, <<example, r.error>>)
                        ELSE deploy_errors

RecordDestroy(example, r) ==
    /\ destroy_errors' = IF ~r.success
                         THEN Append(destroy_errors, <<example, r.error>>)
                         ELSE destroy_errors
    /\ deploy_errors' = deploy_errors

Destroy ==
    /\ pc = "destroy"
    /\ \E proc \in PopenProcs :
          LET example == successful_ts_examples[idx]
              r == destroy_example(example, proc)
          IN IF proc.kind = "hang"
             THEN Blocked("cdk destroy", example) /\ UNCHANGED <<deploy_errors, destroy_errors>>
             ELSE /\ log' = log \o r.steps
                  /\ RecordDestroy(example, r)
                  /\ NextExample
    /\ UNCHANGED <<args, tree, tools, ts_examples, py_examples, example_names,
                   ts_templates, py_templates, synth_errors, comparison_errors,
                   successful_ts_examples, todo, exit_code, console,
                   synth_in, synth_out>>

ReportSkipped ==
    /\ pc = "report_skipped"
    /\ console' = console \o
          (IF SkippedExamples # << >>
           THEN <<"Skipped example(s) due to synthesis failures:">> \o
                [i \in 1..Len(SkippedExamples) |-> "  - skipped"]
           ELSE << >>)
    /\ log' = log \o [i \in 1..Len(SkippedExamples) |->
                         Ev("skipped", SkippedExamples[i], 0, << >>, << >>)]
    /\ pc' = "summary"
    /\ UNCHANGED <<args, tree, tools, ts_examples, py_examples, example_names,
                   ts_templates, py_templates, synth_errors, comparison_errors,
                   deploy_errors, destroy_errors, successful_ts_examples, idx, todo,
                   exit_code, synth_in, synth_out>>

(***************************************************************************)
(* Summary and exit status                                                 *)
(***************************************************************************)
total_errors_omits_destroy ==
    Len(synth_errors) + Len(comparison_errors) + Len(deploy_errors)

total_errors ==
    Len(synth_errors) + Len(comparison_errors) + Len(deploy_errors) + Len(destroy_errors)

ExitStatus(total) == IF total = 0 THEN 0 ELSE 1

Summary ==
    /\ pc = "summary"
    /\ console' = console \o <<"Summary">> \o
          (IF synth_errors # << >> THEN <<"Synthesis Errors">> ELSE << >>) \o
          (IF comparison_errors # << >> THEN <<"Template Comparison Errors">> ELSE << >>) \o
          (IF deploy_errors # << >> THEN <<"Deployment Errors">> ELSE << >>) \o
          (IF destroy_errors # << >> THEN <<"Destroy Errors">> ELSE << >>) \o
          <<IF total_errors = 0 THEN "All tests passed!" ELSE "error(s) found">>
    /\ log' = Append(log, Ev("summary", NoEx, total_errors, << >>, << >>))
    /\ exit_code' = ExitStatus(total_errors)
    /\ pc' = "returned"
    /\ UNCHANGED <<args, tree, tools, ts_examples, py_examples, example_names,
                   ts_templates, py_templates, synth_errors, comparison_errors,
                   deploy_errors, destroy_errors, successful_ts_examples, idx, todo,
                   synth_in, synth_out>>

Next ==
    \/ ModuleLoad
    \/ CheckPrerequisites
    \/ BuildPackage
    \/ FindExamples
    \/ SynthTypeScript
    \/ SynthPython
    \/ CompareTemplates
    \/ BeginPhase3
    \/ Deploy
    \/ Destroy
    \/ ReportSkipped
    \/ Summary

Spec == Init /\ [][Next]_vars

(***************************************************************************)
(* synth_example on its own: every environment of SynthEnvs, both variants *)
(***************************************************************************)
SynthProcs == {OkProc, FailProc, TimeoutProc, OSErrorProc(<<"No such file or directory">>)}

FilePool ==
    {File("A.template.json", TRUE, TemplateX),
     File("B.template.json", TRUE, TemplateY),
     File("C.template.json", FALSE, TemplateX)}

RECURSIVE Listings(_, _)
Listings(pool, n) ==
    IF n = 0 THEN {<< >>}
    ELSE LET shorter == Listings(pool, n - 1)
         IN shorter \cup {Append(l, f) : <<l, f>> \in
                            {x \in shorter \X pool : x[2] \notin SeqRange(x[1])}}

SynthEnvs ==
    [dep : SynthProcs,
     artifacts : {[i \in 1..n |-> "artifact"] : n \in 0..MaxFiles},
     local : SynthProcs,
     synth : SynthProcs,
     cdk_out : BOOLEAN,
     top : Listings(FilePool, MaxFiles),
     nested : Listings(FilePool, 1)]

SynthInit ==
    /\ pc = "synth_example"
    /\ args = [skip_deploy |-> TRUE, skip_package |-> TRUE, examples |-> None]
    /\ tree = [l \in Langs |-> [exists |-> FALSE, entries |-> {}]]
    /\ tools = [npm |-> "ok", python |-> "python", dist |-> "built"]
    /\ ts_examples = << >> /\ py_examples = << >> /\ example_names = {}
    /\ ts_templates = EmptyDict /\ py_templates = EmptyDict
    /\ synth_errors = << >> /\ comparison_errors = << >>
    /\ deploy_errors = << >> /\ destroy_errors = << >>
    /\ successful_ts_examples = << >>
    /\ idx = 0 /\ todo = {}
    /\ exit_code = -1
    /\ log = << >> /\ console = << >>
    /\ synth_in \in {<<[example_path |-> ExamplePath(l, 1), lang |-> l, env |-> e]>> :
                        <<l, e>> \in Langs \X SynthEnvs}
    /\ synth_out = << >>

SynthApply ==
    /\ pc = "synth_example"
    /\ synth_out = << >>
    /\ synth_out' = <<synth_example(synth_in[1].example_path, synth_in[1].lang,
                                    synth_in[1].env)>>
    /\ UNCHANGED <<mainVars, synth_in>>

SynthNext == SynthApply

SynthSpec == SynthInit /\ [][SynthNext]_vars

(***************************************************************************)
(* run_command on its own: every outcome of the process it starts          *)
(***************************************************************************)
IdleMain(at) ==
    /\ pc = at
    /\ args = [skip_deploy |-> TRUE, skip_package |-> TRUE, examples |-> None]
    /\ tree = [l \in Langs |-> [exists |-> FALSE, entries |-> {}]]
    /\ tools = [npm |-> "ok", python |-> "python", dist |-> "built"]
    /\ ts_examples = << >> /\ py_examples = << >> /\ example_names = {}
    /\ ts_templates = EmptyDict /\ py_templates = EmptyDict
    /\ synth_errors = << >> /\ comparison_errors = << >>
    /\ deploy_errors = << >> /\ destroy_errors = << >>
    /\ successful_ts_examples = << >>
    /\ idx = 0 /\ todo = {}
    /\ exit_code = -1
    /\ log = << >> /\ console = << >>

Texts ==
    {<< >>, <<"out">>, <<"stderr">>, <<"No such file or directory">>,
     <<"Command timed out after 10 minutes">>}

RunProcs ==
    {ExitProc(c, o, e) : <<c, o, e>> \in (0..MaxCode) \X Texts \X Texts}
    \cup {TimeoutProc}
    \cup {OSErrorProc(msg) : msg \in Texts \ {<< >>}}

RunInit ==
    /\ IdleMain("run_command")
    /\ synth_in \in {<<proc>> : proc \in RunProcs}
    /\ synth_out = << >>

RunApply ==
    /\ pc = "run_command"
    /\ synth_out = << >>
    /\ synth_out' = <<run_command(synth_in[1])>>
    /\ UNCHANGED <<mainVars, synth_in>>

RunNext == RunApply

RunSpec == RunInit /\ [][RunNext]_vars

(***************************************************************************)
(* find_examples on its own: every small examples directory and filter     *)
(***************************************************************************)
EntryKinds ==
    {[is_dir |-> FALSE, files |-> {}]}
    \cup {[is_dir |-> TRUE, files |-> f] : f \in {{}, {"app.ts"}, {"app.py"}}}

DirListings ==
    {[exists |-> FALSE, entries |-> {}]}
    \cup {[exists |-> TRUE,
           entries |-> {[name |-> n, is_dir |-> k[n][1].is_dir, files |-> k[n][1].files] :
                           n \in {x \in Names : k[x] # << >>}}] :
            k \in [Names -> {<< >>} \cup {<<e>> : e \in EntryKinds}]}

FindTrees == [Langs -> DirListings]

FindFilters == {None} \cup {<<f>> : f \in SUBSET Names}

FindInit ==
    /\ IdleMain("call find_examples")
    /\ synth_in \in {<<[tree |-> t, filter_names |-> f]>> : <<t, f>> \in FindTrees \X FindFilters}
    /\ synth_out = << >>

FindApply ==
    /\ pc = "call find_examples"
    /\ synth_out = << >>
    /\ synth_out' = <<find_examples(synth_in[1].tree, synth_in[1].filter_names)>>
    /\ UNCHANGED <<mainVars, synth_in>>

FindNext == FindApply

FindSpec == FindInit /\ [][FindNext]_vars

(***************************************************************************)
(* normalize_json and compare_templates on their own: texts whose value is *)
(* at most two levels deep, in both layouts, and texts that do not parse   *)
(***************************************************************************)
RECURSIVE SeqsUpTo(_, _)
SeqsUpTo(S, n) ==
    IF n = 0 THEN {<< >>}
    ELSE LET shorter == SeqsUpTo(S, n - 1)
         IN shorter \cup {Append(x[1], x[2]) : x \in shorter \X S}

Keys == SeqRange(KeysSorted)
ScalarValues == {Scalar("X"), Scalar("Y")}
ScalarMembers == {Member(x[1], x[2]) : x \in Keys \X ScalarValues}
InnerValues ==
    ScalarValues
    \cup {Array(e) : e \in SeqsUpTo(ScalarValues, MaxMembers)}
    \cup {Object(m) : m \in SeqsUpTo(ScalarMembers, MaxMembers)}
InnerMembers == {Member(x[1], x[2]) : x \in Keys \X InnerValues}
TopValues ==
    InnerValues
    \cup {Object(<<m>>) : m \in InnerMembers}
    \cup {Object(<<x[1], x[2]>>) : x \in InnerMembers \X ScalarMembers}
    \cup {Object(<<x[1], x[2]>>) : x \in ScalarMembers \X InnerMembers}

RawTexts == {RawText(<< >>), RawText(<<"not json">>), RawText(<<"{", "\"Type\": ">>)}
JsonTexts == {JsonText(x[1], x[2]) : x \in {"indent2", "compact"} \X TopValues}
TemplateTexts == JsonTexts \cup RawTexts

NormInit ==
    /\ IdleMain("normalize_json")
    /\ synth_in \in {<<text>> : text \in TemplateTexts}
    /\ synth_out = << >>

NormApply ==
    /\ pc = "normalize_json"
    /\ synth_out = << >>
    /\ synth_out' = <<normalize_json(synth_in[1])>>
    /\ UNCHANGED <<mainVars, synth_in>>

NormAgain ==
    /\ pc = "normalize_json"
    /\ Len(synth_out) = 1
    /\ synth_out' = Append(synth_out, normalize_json(synth_out[1]))
    /\ UNCHANGED <<mainVars, synth_in>>

NormNext == NormApply \/ NormAgain

NormSpec == NormInit /\ [][NormNext]_vars

\* The texts a text is compared with: itself, every text of the small set
\* (when it is one of them), every rewriting of it with the members of its
\* objects in another order (when its keys are unique, as those of a
\* mapping are), and the text with the elements of its arrays reversed.
RECURSIVE Products(_)
Products(sets) ==
    IF sets = << >> THEN {<< >>}
    ELSE {<<x[1]>> \o x[2] : x \in Head(sets) \X Products(Tail(sets))}

RECURSIVE KeyPermutations(_)
KeyPermutations(node) ==
    IF node.k = "scalar" THEN {node}
    ELSE IF node.k = "array"
    THEN {Array(e) : e \in Products([i \in 1..Len(node.items) |->
                                       KeyPermutations(node.items[i])])}
    ELSE UNION {{Object([i \in 1..Len(node.items) |-> Member(node.items[p[i]].s, v[i])]) :
                   v \in Products([i \in 1..Len(node.items) |->
                                     KeyPermutations(node.items[p[i]].items[1])])} :
                p \in Permutations(1..Len(node.items))}

RECURSIVE ArraysReversed(_)
ArraysReversed(node) ==
    IF node.k = "scalar" THEN node
    ELSE IF node.k = "array"
    THEN Array(Reverse([i \in 1..Len(node.items) |-> ArraysReversed(node.items[i])]))
    ELSE Object([i \in 1..Len(node.items) |->
                   Member(node.items[i].s, ArraysReversed(node.items[i].items[1]))])

RECURSIVE UniqueKeys(_)
UniqueKeys(node) ==
    /\ node.k = "object" =>
          \A i, j \in 1..Len(node.items) : node.items[i].s = node.items[j].s => i = j
    /\ \A i \in 1..Len(node.items) : UniqueKeys(node.items[i])

SmallTexts ==
    {JsonText("indent2", v) : v \in InnerValues}
    \cup RawTexts \cup {TemplateX, TemplateXr, TemplateY}

Partners(text) ==
    {text}
    \cup (IF text \in SmallTexts THEN SmallTexts ELSE {})
    \cup (IF text.json
          THEN {JsonText("compact", ArraysReversed(text.doc))}
               \cup (IF UniqueKeys(text.doc)
                     THEN {JsonText("compact", d) : d \in KeyPermutations(text.doc)}
                     ELSE {})
          ELSE {})

CompareInit ==
    /\ IdleMain("compare_templates")
    /\ synth_in \in {<<text>> : text \in TemplateTexts \cup SmallTexts}
    /\ synth_out = << >>

ComparePick ==
    /\ pc = "compare_templates"
    /\ Len(synth_in) = 1
    /\ \E py_template \in Partners(synth_in[1]) : synth_in' = <<synth_in[1], py_template>>
    /\ UNCHANGED <<mainVars, synth_out>>

CompareApply ==
    /\ pc = "compare_templates"
    /\ Len(synth_in) = 2 /\ synth_out = << >>
    /\ synth_out' = <<compare_templates(synth_in[1], synth_in[2])>>
    /\ UNCHANGED <<mainVars, synth_in>>

CompareNext == ComparePick \/ CompareApply

CompareSpec == CompareInit /\ [][CompareNext]_vars

(***************************************************************************)
(* Properties                                                              *)
(***************************************************************************)
LogIdx == 1..Len(log)
ErrorExamples(errors) == {errors[i][1] : i \in 1..Len(errors)}
Contains(str, sub) ==
    \E i \in 1..(Len(str) - Len(sub) + 1) : SubSeq(str, i, i + Len(sub) - 1) = sub
IsDeploy(i) == log[i].op = "cdk deploy"
IsDestroy(i) == log[i].op = "cdk destroy"
IsSynthCall(i) == log[i].op = "synth_example"
IsDepInstall(i) == log[i].op \in {"npm install", "pip install -r"}
NeverExited(e) == e.code = -1
AfterSynthPhase ==
    pc \in {"compare", "phase3", "deploy", "destroy", "report_skipped", "summary", "returned"}

\* C1: a run that reaches the summary exits 0 exactly when the four error
\* lists are all empty and exits 1 otherwise; every early abort exits 1.
C1_ExitCodeIffNoErrors ==
    /\ pc = "returned" =>
          /\ exit_code \in {0, 1}
          /\ exit_code = 0 <=> /\ synth_errors = << >>
                               /\ comparison_errors = << >>
                               /\ deploy_errors = << >>
                               /\ destroy_errors = << >>
    /\ pc = "aborted" => exit_code = 1

C1_Witness ==
    /\ pc = "returned" /\ exit_code = 0
    /\ \E i \in LogIdx : IsDestroy(i) /\ log[i].code = 0
    /\ \E i \in LogIdx : log[i].op = "compare_templates"

\* C2: a destroy is attempted only directly after the same example's deploy
\* exited 0; an example whose deploy failed never has a destroy attempted.
C2_DestroyOnlyAfterSuccessfulDeploy ==
    /\ \A i \in LogIdx : IsDestroy(i) =>
          /\ i > 1
          /\ IsDeploy(i - 1) /\ log[i - 1].ex = log[i].ex /\ log[i - 1].code = 0
    /\ \A i \in LogIdx : IsDeploy(i) /\ log[i].code # 0 =>
          /\ \A j \in LogIdx : IsDestroy(j) => log[j].ex # log[i].ex
          /\ ~(pc = "destroy" /\ successful_ts_examples[idx] = log[i].ex)

C2_Witness ==
    /\ pc = "returned"
    /\ \E i, j \in LogIdx :
          /\ IsDeploy(i) /\ log[i].code # 0 /\ log[i].err # << >>
          /\ i < j /\ IsDestroy(j)

\* C3: every successful deploy is immediately followed by the destroy of the
\* same example, so at the summary no deployed example lacks a destroy attempt.
C3_DeployedThenDestroyed ==
    /\ \A i \in LogIdx : IsDeploy(i) /\ log[i].code = 0 =>
          IF i = Len(log)
          THEN pc = "destroy" /\ successful_ts_examples[idx] = log[i].ex
          ELSE IsDestroy(i + 1) /\ log[i + 1].ex = log[i].ex
    /\ pc \in {"summary", "returned"} =>
          \A i \in LogIdx : IsDeploy(i) /\ log[i].code = 0 =>
             \E j \in LogIdx : j > i /\ IsDestroy(j) /\ log[j].ex = log[i].ex

C3_Witness ==
    /\ pc = "returned"
    /\ \E i, j \in LogIdx :
          /\ IsDeploy(i) /\ IsDeploy(j) /\ log[i].ex # log[j].ex
          /\ log[i].code = 0 /\ log[j].code = 0

\* C4: a failed destroy after a successful deploy is recorded as a destroy
\* error only, never as a deploy error, and makes the run exit 1.
C4_DestroyFailureIsNotDeployFailure ==
    \A i \in LogIdx : IsDestroy(i) /\ ~NeverExited(log[i]) /\ log[i].code # 0 =>
       /\ log[i].ex \in ErrorExamples(destroy_errors)
       /\ log[i].ex \notin ErrorExamples(deploy_errors)
       /\ \E j \in LogIdx : j < i /\ IsDeploy(j) /\ log[j].ex = log[i].ex /\ log[j].code = 0
       /\ pc = "returned" => exit_code = 1

C4_Witness ==
    /\ pc = "returned"
    /\ destroy_errors # << >>
    /\ synth_errors = << >> /\ comparison_errors = << >> /\ deploy_errors = << >>

\* C5: deploy and destroy are only invoked for TypeScript examples whose
\* synthesis succeeded in this run.
C5_OnlySynthesizedTypeScriptDeployed ==
    \A i \in LogIdx : IsDeploy(i) \/ IsDestroy(i) =>
       /\ log[i].ex.lang = "typescript"
       /\ log[i].ex \in SeqRange(ts_examples)
       /\ PathName(log[i].ex) \in DOMAIN ts_templates
       /\ \E j \in LogIdx : j < i /\ IsSynthCall(j) /\ log[j].ex = log[i].ex /\ log[j].code = 0
       /\ \A j \in LogIdx : IsSynthCall(j) /\ log[j].ex = log[i].ex => log[j].code = 0

C5_Witness ==
    /\ pc = "returned"
    /\ \E i \in LogIdx : IsDeploy(i)
    /\ \E j \in LogIdx : IsSynthCall(j) /\ log[j].code # 0

SynthFailuresInLog ==
    LET calls == SelectSeq(log, LAMBDA e : e.op = "synth_example" /\ e.code # 0)
    IN [i \in 1..Len(calls) |->
          <<calls[i].ex, IF calls[i].ex.lang = "typescript" THEN "TypeScript" ELSE "Python",
            calls[i].err>>]

\* C6: every discovered example of both variants gets exactly one synthesis
\* attempt whatever failed before it, and synth_errors lists the failures.
C6_EveryExampleSynthesizedOnce ==
    /\ pc # "synth_example" => synth_errors = SynthFailuresInLog
    /\ LET calls == SelectSeq(log, LAMBDA e : e.op = "synth_example")
       IN /\ \A i, j \in 1..Len(calls) : calls[i].ex = calls[j].ex => i = j
          /\ AfterSynthPhase =>
                \A ex \in SeqRange(ts_examples) \cup SeqRange(py_examples) :
                   \E i \in 1..Len(calls) : calls[i].ex = ex

C6_Witness ==
    /\ pc = "compare"
    /\ Len(ts_examples) = 2
    /\ Len(synth_errors) = 1 /\ synth_errors[1][1] = ts_examples[1]
    /\ PathName(ts_examples[2]) \in DOMAIN ts_templates

\* The steps of the claim's list that fail in an environment: a command that
\* does not exit 0 (non-zero exit, timeout, launch failure), no artifact, a
\* missing cdk.out, no template file, an unreadable first template file.
ExitsZero(proc) == proc.kind = "exit" /\ proc.code = 0
ListedTemplates(env) == IF env.top # << >> THEN env.top ELSE env.nested
SomeStepFails(env) ==
    \/ ~ExitsZero(env.dep)
    \/ env.artifacts = << >>
    \/ ~ExitsZero(env.local)
    \/ ~ExitsZero(env.synth)
    \/ ~env.cdk_out
    \/ ListedTemplates(env) = << >>
    \/ ~ListedTemplates(env)[1].readable

\* C7: synth_example never raises; success holds exactly when a template is
\* returned and the error is empty; any failing step gives success = False,
\* no template and a non-empty error.
C7_SynthOutcomeWellFormed ==
    synth_out # << >> =>
       LET r == synth_out[1]
           env == synth_in[1].env
       IN /\ ~r.raised
          /\ r.success <=> (r.template # None /\ r.error = << >>)
          /\ SomeStepFails(env) => ~r.success /\ r.template = None /\ r.error # << >>
          /\ ~SomeStepFails(env) => r.success /\ r.template = <<ListedTemplates(env)[1].text>>

C7_Witness ==
    /\ synth_out # << >>
    /\ synth_in[1].env.synth.kind = "oserror"
    /\ ExitsZero(synth_in[1].env.dep) /\ ExitsZero(synth_in[1].env.local)
    /\ synth_in[1].env.artifacts # << >>
    /\ ~synth_out[1].success /\ Contains(synth_out[1].error, synth_in[1].env.synth.err)

StepOrder(lang) ==
    IF lang = "typescript"
    THEN <<"npm install", "glob dist/js/*.tgz", "npm install --no-save",
           "cdk synth", "find template", "read template">>
    ELSE <<"pip install -r", "glob dist/python/*.whl", "pip install",
           "cdk synth", "find template", "read template">>

\* C8: the steps of one synthesis run in the order dependency install,
\* local-artifact install, synth, locate template, read template, and a
\* failed step is the last one executed.
C8_StepsInOrderAndShortCircuit ==
    synth_out # << >> =>
       LET steps == synth_out[1].steps
           order == StepOrder(synth_in[1].lang)
       IN /\ Len(steps) >= 1 /\ Len(steps) <= Len(order)
          /\ \A i \in 1..Len(steps) : steps[i].op = order[i]
          /\ \A i \in 1..(Len(steps) - 1) : steps[i].code = 0
          /\ synth_out[1].success <=> (Len(steps) = Len(order) /\ steps[Len(steps)].code = 0)
          /\ ~ExitsZero(synth_in[1].env.dep) => Len(steps) = 1

C8_Witness ==
    /\ synth_out # << >>
    /\ synth_in[1].lang = "python"
    /\ Len(synth_out[1].steps) = 3
    /\ synth_out[1].steps[3].op = "pip install" /\ synth_out[1].steps[3].code # 0
    /\ ListedTemplates(synth_in[1].env) # << >> /\ synth_in[1].env.cdk_out

\* C9: an example whose dependency install exits non-zero has a synthesis
\* error that contains the captured stderr, has no template, and takes part
\* in no comparison and no deploy or destroy.
C9_DependencyInstallFailureExcludesExample ==
    \A i \in LogIdx : IsDepInstall(i) /\ log[i].code # 0 =>
       LET ex == log[i].ex
       IN /\ \E k \in 1..Len(synth_errors) :
                synth_errors[k][1] = ex /\ Contains(synth_errors[k][3], log[i].err)
          /\ PathName(ex) \notin DOMAIN (IF ex.lang = "typescript" THEN ts_templates
                                         ELSE py_templates)
          /\ \A j \in LogIdx : log[j].op = "compare_templates" => log[j].ex.name # PathName(ex)
          /\ \A j \in LogIdx : IsDeploy(j) \/ IsDestroy(j) => log[j].ex # ex

C9_Witness ==
    /\ pc = "returned" /\ ~args.skip_deploy
    /\ \E i \in LogIdx :
          /\ IsDepInstall(i) /\ log[i].code # 0 /\ log[i].err # << >>
          /\ log[i].ex.lang = "typescript"
          /\ PathName(log[i].ex) \in DOMAIN py_templates

PhaseOf(e) ==
    IF e.op \in {"shutil.which", "cdk --version", "npm --version", "python --version",
                 "python3 --version"} THEN "PREREQUISITES"
    ELSE IF e.op = "yarn run" THEN "BUILD_PACKAGE"
    ELSE IF e.op = "find_examples" THEN "DISCOVER"
    ELSE IF e.op \in {"compare_templates", "skip comparison"} THEN "COMPARE_ALL"
    ELSE IF e.op \in {"cdk deploy", "cdk destroy", "skipped"} THEN "LIFECYCLE"
    ELSE IF e.op = "summary" THEN "REPORT"
    ELSE "SYNTH_ALL"

RankIn(order, phase) == CHOOSE i \in 1..Len(order) : order[i] = phase

PhasesFollow(order) ==
    LET phase == [i \in LogIdx |-> PhaseOf(log[i])]
    IN \A i \in 1..(Len(log) - 1) :
          phase[i] = phase[i + 1] \/ RankIn(order, phase[i]) < RankIn(order, phase[i + 1])

\* C10 as stated: discovery is performed before any package-build step.
C10_Original_DiscoverBeforeBuild ==
    PhasesFollow(<<"PREREQUISITES", "DISCOVER", "BUILD_PACKAGE", "SYNTH_ALL",
                   "COMPARE_ALL", "LIFECYCLE", "REPORT">>)

\* C10 amended: the phases run in the order prerequisites, BUILD_PACKAGE
\* (optional), DISCOVER, SYNTH_ALL, COMPARE_ALL, LIFECYCLE (optional), REPORT;
\* discovery starts only after the four build steps succeeded or were skipped.
C10_BuildBeforeDiscover ==
    /\ PhasesFollow(<<"PREREQUISITES", "BUILD_PACKAGE", "DISCOVER", "SYNTH_ALL",
                      "COMPARE_ALL", "LIFECYCLE", "REPORT">>)
    /\ \A i \in LogIdx : log[i].op = "find_examples" =>
          \/ args.skip_package
          \/ \A b \in 1..Len(BuildSteps) :
                \E j \in 1..(i - 1) :
                   log[j].op = "yarn run" /\ log[j].arg = <<BuildSteps[b]>> /\ log[j].code = 0
    /\ pc \in {"summary", "returned"} =>
          /\ \E i \in LogIdx : log[i].op = "find_examples"
          /\ \E i \in LogIdx : IsSynthCall(i)
    /\ pc = "returned" => \E k \in 1..Len(console) : console[k] = "Summary"

C10_Witness ==
    /\ pc = "returned" /\ ~args.skip_package /\ ~args.skip_deploy
    /\ \E i \in LogIdx : log[i].op = "compare_templates"
    /\ \E i \in LogIdx : IsDestroy(i)

IsVisit(i) == log[i].op \in {"compare_templates", "skip comparison"}
\* The notes that close a run: the skipped examples and the summary.
IsReport(i) == log[i].op \in {"skipped", "summary"}
Discovered == SeqRange(ts_examples) \cup SeqRange(py_examples)

\* C11: no name is compared (or skipped) before every discovered example of
\* both variants has had its synthesis attempt, and no synthesis follows; no
\* deploy starts before phase 2 has visited every name, and no visit follows.
C11_PhaseBarriers ==
    /\ (pc = "compare" \/ \E i \in LogIdx : IsVisit(i)) =>
          \A ex \in Discovered : \E j \in LogIdx : IsSynthCall(j) /\ log[j].ex = ex
    /\ \A i \in 1..(Len(log) - 1) :
          IsVisit(i) => IsVisit(i + 1) \/ IsDeploy(i + 1) \/ IsReport(i + 1)
    /\ (pc \in {"deploy", "destroy"} \/ \E i \in LogIdx : IsDeploy(i)) =>
          /\ todo = {}
          /\ \A n \in example_names : \E j \in LogIdx : IsVisit(j) /\ log[j].ex.name = n
    /\ \A i \in 1..(Len(log) - 1) :
          IsDeploy(i) \/ IsDestroy(i) =>
             IsDeploy(i + 1) \/ IsDestroy(i + 1) \/ IsReport(i + 1)

C11_Witness ==
    /\ pc = "deploy"
    /\ ts_examples # << >> /\ py_examples # << >>
    /\ log[Len(log)].op = "compare_templates"
    /\ \E j \in LogIdx : IsSynthCall(j) /\ log[j].ex.lang = "python"

NamesAscend(events) ==
    \A i \in 1..(Len(events) - 1) : events[i].ex.name < events[i + 1].ex.name
SynthCallsOf(lang) ==
    SelectSeq(log, LAMBDA e : e.op = "synth_example" /\ e.ex.lang = lang)
SynthInSortedOrder == \A l \in Langs : NamesAscend(SynthCallsOf(l))
LifecycleInSortedOrder == NamesAscend(SelectSeq(log, LAMBDA e : e.op = "cdk deploy"))
Visits == SelectSeq(log, LAMBDA e : e.op \in {"compare_templates", "skip comparison"})

\* C12 as stated: in every phase the examples are processed in sorted order,
\* the comparison phase included.  Synthesis and lifecycle follow the sorted
\* lists; the comparison loop iterates a set of str, whose order is not fixed.
C12_EveryPhaseInSortedOrder ==
    /\ SynthInSortedOrder
    /\ LifecycleInSortedOrder
    /\ NamesAscend(Visits)

\* C13 as stated: no external command keeps the run waiting; one that never
\* exits is recorded as a failure of its step and the run goes on to its end.
C13_HangingCommandFailsItsStep ==
    /\ pc # "blocked"
    /\ \A i \in LogIdx : NeverExited(log[i]) =>
          log[i].ex \in ErrorExamples(deploy_errors \o destroy_errors)

RunReturned(kind) ==
    pc = "run_command" /\ synth_out # << >> /\ synth_in[1].kind = kind

\* C14: when the timeout expires run_command returns, without raising, a
\* non-zero exit code, an empty stdout and a stderr naming the timeout.
C14_TimeoutIsReturnedAsFailure ==
    RunReturned("timeout") =>
       LET r == synth_out[1]
       IN /\ ~r.raised
          /\ r.code # 0
          /\ r.out = << >>
          /\ r.err = <<"Command timed out after 10 minutes">>

C14_Witness == RunReturned("timeout") /\ synth_out[1].code = 1

\* C15 as stated: the result of a launch failure differs from the result of
\* every command that was started and exited.
C15_Original_LaunchFailureIsDistinct ==
    RunReturned("oserror") =>
       \A proc \in RunProcs : proc.kind = "exit" => run_command(proc) # synth_out[1]

\* C15 amended: a launch failure is returned, without raising, as the
\* ordinary result with exit code 1, empty stdout and the exception text as
\* stderr: the same value a command that exited 1 with that stderr gives.
C15_LaunchFailureIsOrdinaryFailure ==
    RunReturned("oserror") =>
       LET r == synth_out[1]
       IN /\ ~r.raised
          /\ r.code = 1 /\ r.out = << >>
          /\ r.err = synth_in[1].err /\ r.err # << >>
          /\ r = run_command(ExitProc(1, << >>, synth_in[1].err))

C15_Witness ==
    /\ RunReturned("oserror")
    /\ synth_out[1].err = <<"No such file or directory">>

IsMissingTool(e) ==
    \/ e.op = "shutil.which" /\ e.code # 0
    \/ e.op = "cdk --version" /\ e.code # 0
OnlyPrerequisitesRan == \A i \in LogIdx : PhaseOf(log[i]) = "PREREQUISITES"

\* C16 as stated: once any required executable is found absent (cdk, npm or
\* yarn not on the PATH, cdk not running, no Python interpreter) the run ends
\* with a failure status and no phase runs.
C16_Original_AnyMissingToolIsFatal ==
    (pc \notin {"load", "main"}
       /\ (tools.python = "none" \/ \E i \in LogIdx : IsMissingTool(log[i]))) =>
       /\ pc \in {"crashed", "aborted"} /\ exit_code = 1
       /\ OnlyPrerequisitesRan

\* C16 amended: cdk, npm or yarn missing from the PATH, or a cdk that does
\* not run, ends the run with status 1 before any phase; the npm and Python
\* probes never stop the run, whatever they return.
C16_MissingCdkNpmYarnIsFatal ==
    /\ \A i \in LogIdx : IsMissingTool(log[i]) =>
          /\ i = Len(log)
          /\ pc \in {"crashed", "aborted"} /\ exit_code = 1
          /\ OnlyPrerequisitesRan
    /\ (log # << >> /\ log[Len(log)].op \in {"python --version", "python3 --version"}) =>
          pc \in {"build", "find_examples"} /\ exit_code = -1

C16_Witness ==
    /\ pc = "crashed" /\ exit_code = 1
    /\ Len(log) = 3 /\ log[3].arg = <<"yarn">> /\ log[3].code = 1

EndedEarly == pc \in {"aborted", "crashed"}

\* C17 as stated: a run ends before the summary only for a missing tool or
\* for no examples at all, and then no phase has started.
C17_Original_OnlyToolOrNoExamples ==
    EndedEarly =>
       /\ \/ IsMissingTool(log[Len(log)])
          \/ log[Len(log)].op = "find_examples" /\ ts_examples = << >> /\ py_examples = << >>
       /\ \A i \in LogIdx : PhaseOf(log[i]) \in {"PREREQUISITES", "DISCOVER"}

\* C17 amended: a run ends before the summary only for a missing tool, a
\* failed package-build step or no examples at all; the build phase may have
\* run by then, but no example has been synthesized, compared or deployed,
\* and no per-example failure ends the run.
C17_EarlyEndOnlyBeforeSynthesis ==
    /\ EndedEarly =>
          /\ \/ IsMissingTool(log[Len(log)])
             \/ log[Len(log)].op = "yarn run" /\ log[Len(log)].code # 0
             \/ /\ log[Len(log)].op = "find_examples"
                /\ ts_examples = << >> /\ py_examples = << >>
          /\ exit_code = 1
          /\ \A i \in LogIdx :
                PhaseOf(log[i]) \in {"PREREQUISITES", "BUILD_PACKAGE", "DISCOVER"}
    /\ \A i \in LogIdx :
          (log[i].code > 0 /\ PhaseOf(log[i]) \in {"SYNTH_ALL", "COMPARE_ALL", "LIFECYCLE"}) =>
             ~EndedEarly

C17_Witness ==
    /\ pc = "aborted"
    /\ log[Len(log)].op = "yarn run" /\ log[Len(log)].code # 0
    /\ \E i \in LogIdx : log[i].op = "yarn run" /\ log[i].code = 0

\* C18: when discovery finds no example in either variant the run stops with
\* exit code 1 and does nothing after the discovery; when only one variant
\* is empty the run goes on to the synthesis of the other variant's examples.
C18_NoExamplesStopsRun ==
    \A i \in LogIdx : log[i].op = "find_examples" =>
       IF ts_examples = << >> /\ py_examples = << >>
       THEN pc = "aborted" /\ exit_code = 1 /\ i = Len(log)
       ELSE /\ pc # "aborted"
            /\ i = Len(log) => /\ pc = (IF ts_examples # << >> THEN "synth_ts" ELSE "synth_py")
                               /\ exit_code = -1
            /\ pc = "returned" => \A ex \in Discovered :
                                     \E j \in LogIdx : j > i /\ IsSynthCall(j) /\ log[j].ex = ex

C18_Witness ==
    /\ pc = "aborted" /\ exit_code = 1
    /\ log[Len(log)].op = "find_examples"
    /\ args.examples # None
    /\ tree["typescript"].entries # {} /\ tree["python"].entries # {}

FindReturned == pc = "call find_examples" /\ synth_out # << >>

\* C19: for each variant find_examples returns exactly the names of the
\* entries of that variant's directory that are directories, hold the
\* variant's own entry-point file and, under a filter, are named in it; the
\* result is sorted and carries the variant's prefix.
C19_FindExamplesExact ==
    FindReturned =>
       \A l \in Langs :
          LET r == synth_out[1][l]
              dir == synth_in[1].tree[l]
              f == synth_in[1].filter_names
              expected == {e.name : e \in {x \in dir.entries :
                                             /\ dir.exists
                                             /\ x.is_dir
                                             /\ (IF l = "typescript" THEN "app.ts"
                                                 ELSE "app.py") \in x.files
                                             /\ (f # None => x.name \in f[1])}}
          IN /\ {r[i].name : i \in 1..Len(r)} = expected
             /\ \A i \in 1..Len(r) : r[i].lang = l
             /\ \A i \in 1..(Len(r) - 1) : r[i].name < r[i + 1].name

C19_Witness ==
    /\ FindReturned
    /\ synth_in[1].filter_names # None
    /\ Len(synth_out[1]["typescript"]) = 1 /\ synth_out[1]["python"] = << >>
    /\ \E e \in synth_in[1].tree["python"].entries :
          e.is_dir /\ e.files = {"app.ts"} /\ e.name \in synth_in[1].filter_names[1]
    /\ \E e \in synth_in[1].tree["typescript"].entries :
          e.is_dir /\ e.files = {"app.ts"} /\ e.name \notin synth_in[1].filter_names[1]

SynthSucceeded(lang, name) ==
    \E j \in LogIdx : IsSynthCall(j) /\ log[j].ex = ExamplePath(lang, name) /\ log[j].code = 0
BothSynthesized(name) == SynthSucceeded("typescript", name) /\ SynthSucceeded("python", name)
Mismatches == SelectSeq(log, LAMBDA e : e.op = "compare_templates" /\ e.code # 0)

\* C20: phase 2 compares a name exactly when both of its syntheses succeeded
\* and skips every other name; only compared names that differ enter
\* comparison_errors, so a run whose only events are skips still exits 0.
C20_ComparedIffBothSynthesized ==
    /\ \A i \in LogIdx :
          /\ log[i].op = "compare_templates" => BothSynthesized(log[i].ex.name)
          /\ log[i].op = "skip comparison" => ~BothSynthesized(log[i].ex.name)
    /\ pc \in {"phase3", "deploy", "destroy", "blocked", "report_skipped", "summary", "returned"} =>
          LET visits == Visits
          IN \A n \in example_names :
                Len(SelectSeq(visits, LAMBDA e : e.ex.name = n)) = 1
    /\ pc \notin {"synth_example", "run_command", "call find_examples"} =>
          LET mismatches == Mismatches
          IN /\ Len(comparison_errors) = Len(mismatches)
             /\ \A k \in 1..Len(mismatches) : comparison_errors[k][1] = mismatches[k].ex.name
    /\ (pc = "returned" /\ synth_errors = << >> /\ deploy_errors = << >>
          /\ destroy_errors = << >> /\ Mismatches = << >>) => exit_code = 0

C20_Witness ==
    /\ pc = "returned" /\ exit_code = 0
    /\ \E i \in LogIdx : log[i].op = "skip comparison" /\ log[i].arg = <<"No Python template">>
    /\ \E i \in LogIdx : IsDestroy(i)

CompareReturned == pc = "compare_templates" /\ synth_out # << >>

\* C21: compare_templates reports a match exactly when it returns an empty
\* diff; when the canonical forms differ it reports a mismatch whose diff
\* holds every line found in only one of the two canonical forms.
C21_MatchIffEmptyDiff ==
    CompareReturned =>
       LET r == synth_out[1]
           a == normalize_json(synth_in[1])
           b == normalize_json(synth_in[2])
           la == splitlines(a)
           lb == splitlines(b)
       IN /\ r.match <=> r.diff = << >>
          /\ a = b => r.match
          /\ a # b =>
                /\ ~r.match
                /\ \A i \in 1..Len(la) :
                      la[i] \notin SeqRange(lb) => (<<"-">> \o la[i]) \in SeqRange(r.diff)
                /\ \A i \in 1..Len(lb) :
                      lb[i] \notin SeqRange(la) => (<<"+">> \o lb[i]) \in SeqRange(r.diff)

C21_Witness ==
    /\ CompareReturned
    /\ synth_in[1] = TemplateX /\ synth_in[2] = TemplateY
    /\ ~synth_out[1].match
    /\ <<"-", "  ", "  ", "Type", ": ", "X", "", "\n">> \in SeqRange(synth_out[1].diff)
    /\ <<"+", "  ", "  ", "Type", ": ", "Y", "", "\n">> \in SeqRange(synth_out[1].diff)

\* C22: every text, whether it parses or not, matches itself with an empty
\* diff.
C22_CompareIsReflexive ==
    (CompareReturned /\ synth_in[1] = synth_in[2]) =>
       synth_out[1].match /\ synth_out[1].diff = << >>

C22_Witness ==
    /\ CompareReturned
    /\ synth_in[1] = synth_in[2] /\ ~synth_in[1].json /\ synth_in[1].doc.items # << >>
    /\ synth_out[1].match

\* C23: normalizing the result of normalize_json gives that result again.
C23_NormalizeIsIdempotent ==
    (pc = "normalize_json" /\ Len(synth_out) = 2) => synth_out[2] = synth_out[1]

C23_Witness ==
    /\ pc = "normalize_json" /\ Len(synth_out) = 2
    /\ synth_in[1].json /\ synth_in[1].style = "compact"
    /\ ~UniqueKeys(synth_in[1].doc)
    /\ synth_out[1].doc # synth_in[1].doc

RECURSIVE SameUpToKeyOrder(_, _)
SameUpToKeyOrder(a, b) ==
    /\ a.k = b.k /\ a.s = b.s /\ Len(a.items) = Len(b.items)
    /\ IF a.k = "object"
       THEN \A i \in 1..Len(a.items) : \E j \in 1..Len(b.items) :
               /\ a.items[i].s = b.items[j].s
               /\ SameUpToKeyOrder(a.items[i].items[1], b.items[j].items[1])
       ELSE \A i \in 1..Len(a.items) : SameUpToKeyOrder(a.items[i], b.items[i])

\* C24: two documents (JSON texts whose objects have unique keys) match
\* exactly when they are equal up to the order of the members of their
\* objects at every level; the order of the elements of an array counts.
C24_KeyOrderIgnoredElementOrderKept ==
    (CompareReturned /\ synth_in[1].json /\ synth_in[2].json
       /\ UniqueKeys(synth_in[1].doc) /\ UniqueKeys(synth_in[2].doc)) =>
       (synth_out[1].match <=> SameUpToKeyOrder(synth_in[1].doc, synth_in[2].doc))

C24_Witness ==
    /\ CompareReturned /\ synth_out[1].match
    /\ synth_in[1].json /\ UniqueKeys(synth_in[1].doc)
    /\ synth_in[1].doc.k = "object" /\ Len(synth_in[1].doc.items) = 2
    /\ synth_in[1].doc.items[1].items[1].k = "object"
    /\ Len(synth_in[1].doc.items[1].items[1].items) = 2
    /\ synth_in[2].doc.items[2].s = synth_in[1].doc.items[1].s
    /\ synth_in[2].doc.items[2].items[1].items = Reverse(synth_in[1].doc.items[1].items[1].items)

IsArtifactGlob(e) == e.op \in {"glob dist/js/*.tgz", "glob dist/python/*.whl"}
IsLocalInstall(e) == e.op \in {"npm install --no-save", "pip install"}

\* The local-artifact install step was reached: the glob of the variant's
\* output directory is among the executed steps.
ReachedLocalInstall ==
    /\ synth_out # << >>
    /\ \E i \in 1..Len(synth_out[1].steps) : IsArtifactGlob(synth_out[1].steps[i])

LocalInstalls == SelectSeq(synth_out[1].steps, IsLocalInstall)

\* C25 as stated: zero or more than one matching artifact fails the
\* synthesis, and no install command receives several artifacts.
C25_Original_ZeroOrSeveralArtifactsIsAnError ==
    ReachedLocalInstall =>
       /\ Len(synth_in[1].env.artifacts) # 1 => ~synth_out[1].success
       /\ \A i \in 1..Len(LocalInstalls) : Len(LocalInstalls[i].arg) <= 1

\* C25: only an empty match is an error of the local-artifact install step:
\* the synthesis fails with the "No ... files found" error and no install
\* command is run.  One or more matching artifacts are all handed to a single
\* install command, whose exit code alone decides the step.
C25_OnlyZeroArtifactsIsAnError ==
    ReachedLocalInstall =>
       LET r == synth_out[1]
           env == synth_in[1].env
       IN /\ env.artifacts = << >> =>
                /\ ~r.success /\ r.template = None
                /\ r.error \in {<<"No dist .tgz files found in ", "dist/js">>,
                                <<"No .whl files found in ", "dist/python">>}
                /\ LocalInstalls = << >>
          /\ env.artifacts # << >> =>
                /\ Len(LocalInstalls) = 1
                /\ LocalInstalls[1].arg = env.artifacts
                /\ LocalInstalls[1].code = 0 => r.steps[Len(r.steps)].op # LocalInstalls[1].op
                /\ LocalInstalls[1].code # 0 =>
                      ~r.success /\ r.steps[Len(r.steps)] = LocalInstalls[1]

C25_Witness ==
    /\ ReachedLocalInstall
    /\ Len(synth_in[1].env.artifacts) = 2
    /\ Len(LocalInstalls) = 1 /\ Len(LocalInstalls[1].arg) = 2
    /\ synth_out[1].success

PathsSorted == <<"A.template.json", "B.template.json", "C.template.json">>
PathRank(path) == CHOOSE i \in 1..Len(PathsSorted) : PathsSorted[i] = path

\* sorted(template_files)[0]
FirstInSortedOrder(template_files) ==
    CHOOSE f \in SeqRange(template_files) :
       \A g \in SeqRange(template_files) : PathRank(f.path) <= PathRank(g.path)

\* C26: when several candidate templates are listed, the template returned
\* is that of the first candidate in sorted order of path, whatever the
\* order of the directory listing.
C26_ReturnsFirstTemplateInSortedOrder ==
    synth_out # << >> /\ synth_out[1].success =>
       LET template_files == ListedTemplates(synth_in[1].env)
       IN Len(template_files) > 1 =>
             synth_out[1].template = <<FirstInSortedOrder(template_files).text>>

(***************************************************************************)
(* The mismatch branch on its own: diffs shorter and longer than the lines *)
(* that are shown, ending with a newline or not                            *)
(***************************************************************************)
\* The lines of a text as splitlines(keepends=True) gives them: `before`
\* lines that both texts have, `changed` lines of this text alone, `after`
\* lines that both texts have; when gap > 0, `gap` more common lines and one
\* more line of this text alone come before the last common lines.
NumberedLine(mark, i) == <<mark>> \o decimal(i)

TextLines(mark, before, changed, gap, after, newline) ==
    LET body == [i \in 1..before |-> NumberedLine("p", i)]
                \o [i \in 1..changed |-> NumberedLine(mark, i)]
                \o (IF gap > 0
                    THEN [i \in 1..gap |-> NumberedLine("g", i)] \o <<NumberedLine(mark, 0)>>
                    ELSE << >>)
                \o [i \in 1..after |-> NumberedLine("s", i)]
    IN [i \in 1..Len(body) |->
          IF i < Len(body) \/ newline THEN body[i] \o <<"\n">> ELSE body[i]]

\* The diff compare_templates builds for two such texts.
DiffOf(removed, added, before, gap, after, ts_newline, py_newline) ==
    unified_diff(TextLines("a", before, removed, gap, after, ts_newline),
                 TextLines("b", before, added, gap, after, py_newline))

\* "".join(diff).split('\n'): an element without a newline runs into the
\* next one, and a text that ends with a newline has an empty last part.
split(diff) ==
    LET text == Flatten(diff)
        cuts == <<0>> \o SetToSortedSeq({i \in 1..Len(text) : text[i] = "\n"})
                \o <<Len(text) + 1>>
    IN [k \in 1..(Len(cuts) - 1) |-> SubSeq(text, cuts[k] + 1, cuts[k + 1] - 1)]

\* Diffs of up to max changed lines: lines removed, added or
\* replaced; nothing, or more than the context, around them; a second change
\* in the same hunk or in one of its own; texts that end with a newline or
\* do not.
MismatchDiffs(max) ==
    {DiffOf(x[1][1], x[1][2], x[2], x[3], x[4], x[5], x[6]) :
        x \in {y \in ((0..max) \X (0..max))
                     \X {0, ContextLines + 1} \X {0, 2, 2 * ContextLines + 1}
                     \X {0, ContextLines + 1} \X BOOLEAN \X BOOLEAN :
                 /\ y[1][1] + y[1][2] \in 1..max
                 /\ y[1][1] \in {0, y[1][2]} \/ y[1][2] = 0}}

MismatchInit ==
    /\ IdleMain("report_mismatch")
    /\ synth_in \in {<<[example_name |-> 1, diff |-> d]>> : d \in MismatchDiffs(MaxDiffLines) \ {<< >>}}
    /\ synth_out = << >>

MismatchApply ==
    /\ pc = "report_mismatch"
    /\ synth_out = << >>
    /\ synth_out' = <<report_mismatch(synth_in[1].example_name, synth_in[1].diff,
                                      split(synth_in[1].diff))>>
    /\ UNCHANGED <<mainVars, synth_in>>

MismatchNext == MismatchApply

MismatchSpec == MismatchInit /\ [][MismatchNext]_vars

Printed(line) == \E k \in 1..Len(console) : console[k] = line

\* C27: with --skip-deploy no deploy and no destroy command is invoked, the
\* deploy-error and destroy-error lists stay empty, the report says that
\* phase 3 was skipped, and the exit status is decided by the synthesis
\* errors and the comparison mismatches alone.
C27_SkipDeployRunsNoLifecycle ==
    args.skip_deploy =>
       /\ \A i \in LogIdx : ~IsDeploy(i) /\ ~IsDestroy(i)
       /\ deploy_errors = << >> /\ destroy_errors = << >>
       /\ successful_ts_examples = << >>
       /\ ~Printed("Phase 3: Deploying and Destroying TypeScript Examples")
       /\ pc \in {"summary", "returned"} => Printed("Phase 3: Skipped (--skip-deploy flag)")
       /\ pc = "returned" =>
             exit_code = ExitStatus(Len(synth_errors) + Len(comparison_errors))

C27_Witness ==
    /\ pc = "returned" /\ args.skip_deploy
    /\ DOMAIN ts_templates # {}
    /\ synth_errors = << >> /\ comparison_errors # << >>
    /\ exit_code = 1
    /\ Printed("Phase 3: Skipped (--skip-deploy flag)")

IsBuildStep(i) == log[i].op = "yarn run"

\* Every line main() prints about the package build.
BuildPhaseLines == {"Building Package", "Package building failed. Stopping."}

\* C28 as stated: with --skip-package no build step is invoked and the
\* report carries a note about the skipped build phase.
C28_Original_SkippedBuildIsNoted ==
    args.skip_package /\ pc = "returned" =>
       /\ \A i \in LogIdx : ~IsBuildStep(i)
       /\ \E line \in BuildPhaseLines : Printed(line)

\* C28: with --skip-package no build step is invoked and the run prints
\* nothing about the build phase: the skip is recorded neither as a phase
\* note nor as an error, unlike the skip of phase 3.
C28_SkippedBuildIsSilent ==
    args.skip_package =>
       /\ \A i \in LogIdx : ~IsBuildStep(i)
       /\ pc # "build"
       /\ \A line \in BuildPhaseLines : ~Printed(line)
       /\ pc = "returned" => exit_code = ExitStatus(total_errors)

C28_Witness ==
    /\ args.skip_package /\ args.skip_deploy
    /\ pc = "returned" /\ exit_code = 0
    /\ DOMAIN ts_templates # {}
    /\ Printed("Phase 3: Skipped (--skip-deploy flag)")
    /\ \A line \in BuildPhaseLines : ~Printed(line)

SkipNotes == SelectSeq(log, LAMBDA e : e.op = "skipped")
NotedAsSkipped(ex) == \E k \in 1..Len(SkipNotes) : SkipNotes[k].ex = ex

\* The discovered examples that phase 3 does not deploy: every Python
\* example and every TypeScript example without a synthesized template.
ExcludedFromLifecycle ==
    SeqRange(py_examples) \cup
    {ex \in SeqRange(ts_examples) : PathName(ex) \notin DOMAIN ts_templates}

\* C29 as stated: when the lifecycle phase has run, every example excluded
\* from it (every Python example and every example whose synthesis failed)
\* has a skipped note.
C29_Original_EveryExcludedExampleIsNoted ==
    pc = "returned" /\ ~args.skip_deploy =>
       \A ex \in ExcludedFromLifecycle : NotedAsSkipped(ex)

\* C29: when the lifecycle phase has run, the skipped notes list exactly the
\* TypeScript examples whose synthesis failed, once each and in discovery
\* order, under a "Skipped ..." header; no Python example is ever noted, and
\* with --skip-deploy no example is noted at all.
C29_OnlyFailedTypeScriptExamplesAreNoted ==
    /\ \A k \in 1..Len(SkipNotes) :
          SkipNotes[k].ex.lang = "typescript" /\ ~SynthSucceeded("typescript", SkipNotes[k].ex.name)
    /\ args.skip_deploy => SkipNotes = << >>
    /\ pc \in {"summary", "returned"} /\ ~args.skip_deploy =>
          /\ [k \in 1..Len(SkipNotes) |-> SkipNotes[k].ex] = SkippedExamples
          /\ SkipNotes # << >> <=> Printed("Skipped example(s) due to synthesis failures:")
          /\ \A ex \in SeqRange(ts_examples) :
                NotedAsSkipped(ex) <=> PathName(ex) \notin DOMAIN ts_templates

C29_Witness ==
    /\ pc = "returned" /\ ~args.skip_deploy
    /\ Len(SkipNotes) = 1 /\ NotedAsSkipped(ts_examples[1])
    /\ Printed("Skipped example(s) due to synthesis failures:")
    /\ \E ex \in SeqRange(py_examples) : ~NotedAsSkipped(ex)

\* The failures of a run, in the order in which they happened.
FailedSynths == SelectSeq(log, LAMBDA e : e.op = "synth_example" /\ e.code # 0)
FailedDeploys == SelectSeq(log, LAMBDA e : e.op = "cdk deploy" /\ e.code > 0)
FailedDestroys == SelectSeq(log, LAMBDA e : e.op = "cdk destroy" /\ e.code > 0)
Subjects(errors) == [k \in 1..Len(errors) |-> errors[k][1]]
ExamplesOf(events) == [k \in 1..Len(events) |-> events[k].ex]
ReportedTotal == log[Len(log)].code

\* C30: at the summary each of the four error lists holds exactly one entry
\* per failure of its kind, in the order of the failures, however many
\* failed before, and the total that is reported is the sum of the four
\* counts.
C30_EveryFailureIsCollected ==
    pc \in {"summary", "returned"} =>
       /\ Subjects(synth_errors) = ExamplesOf(FailedSynths)
       /\ Subjects(comparison_errors) =
             [k \in 1..Len(Mismatches) |-> Mismatches[k].ex.name]
       /\ Subjects(deploy_errors) = ExamplesOf(FailedDeploys)
       /\ Subjects(destroy_errors) = ExamplesOf(FailedDestroys)
       /\ pc = "returned" =>
             /\ log[Len(log)].op = "summary"
             /\ ReportedTotal = Len(FailedSynths) + Len(Mismatches)
                                + Len(FailedDeploys) + Len(FailedDestroys)
             /\ Printed("error(s) found") <=> ReportedTotal > 0
             /\ Printed("Synthesis Errors") <=> FailedSynths # << >>
             /\ Printed("Template Comparison Errors") <=> Mismatches # << >>
             /\ Printed("Deployment Errors") <=> FailedDeploys # << >>
             /\ Printed("Destroy Errors") <=> FailedDestroys # << >>

C30_Witness ==
    /\ pc = "returned"
    /\ Len(destroy_errors) = 2 /\ Len(FailedDestroys) = 2
    /\ ReportedTotal = 2 /\ exit_code = 1
    /\ Printed("Destroy Errors")

MissingArtifact(i) == IsArtifactGlob(log[i]) /\ log[i].code # 0
NoArtifactError(lang) ==
    IF lang = "typescript" THEN <<"No dist .tgz files found in ", "dist/js">>
    ELSE <<"No .whl files found in ", "dist/python">>

\* C31 as stated: a missing local package artifact stops the run; no further
\* example is attempted after the one that found it missing.
C31_Original_MissingArtifactFailsHard ==
    \A i \in LogIdx : MissingArtifact(i) =>
       /\ pc = "aborted"
       /\ \A j \in LogIdx : j > i /\ IsSynthCall(j) => log[j].ex = log[i].ex

\* C31: a missing local package artifact fails only the synthesis of the
\* example that looked for it: the failure is recorded as that example's
\* synthesis error and the run goes on, so a run without any artifact attempts
\* every example, records one synthesis error per example and exits 1 at the
\* summary.
C31_MissingArtifactFailsEachExample ==
    /\ \A i \in LogIdx : MissingArtifact(i) =>
          /\ i < Len(log) /\ IsSynthCall(i + 1)
          /\ log[i + 1].ex = log[i].ex /\ log[i + 1].code # 0
          /\ log[i + 1].err = NoArtifactError(log[i].ex.lang)
          /\ \E k \in 1..Len(synth_errors) :
                synth_errors[k][1] = log[i].ex /\ synth_errors[k][3] = log[i + 1].err
          /\ pc # "aborted"
          /\ pc = "returned" => exit_code = 1
    /\ tools.dist = "none" /\ AfterSynthPhase =>
          /\ Subjects(synth_errors) = ts_examples \o py_examples
          /\ DOMAIN ts_templates = {} /\ DOMAIN py_templates = {}

C31_Witness ==
    /\ pc = "returned" /\ exit_code = 1
    /\ tools.dist = "none"
    /\ Len(synth_errors) = 2
    /\ \A k \in 1..2 : synth_errors[k][3] = NoArtifactError(synth_errors[k][1].lang)
    /\ Len(SelectSeq(log, LAMBDA e : IsArtifactGlob(e) /\ e.code # 0)) = 2

Deploys == SelectSeq(log, LAMBDA e : e.op = "cdk deploy")

\* The examples that have been deployed and whose destroy attempt has not
\* finished.
DeployedNotDestroyed ==
    {log[i].ex : i \in {k \in LogIdx :
        /\ IsDeploy(k) /\ log[k].code = 0
        /\ \A j \in LogIdx : j > k /\ IsDestroy(j) /\ ~NeverExited(log[j]) =>
              log[j].ex # log[k].ex}}

\* C32: examples are deployed one by one.  Between the deploys of two
\* examples the first deploy has finished and, if it succeeded, so has its
\* destroy attempt; at most one example is deployed without a finished
\* destroy attempt; no example is deployed twice.
C32_OneLifecycleAtATime ==
    /\ \A j \in LogIdx : IsDeploy(j) =>
          \A i \in 1..(j - 1) : IsDeploy(i) =>
             /\ log[i].ex # log[j].ex
             /\ ~NeverExited(log[i])
             /\ log[i].code = 0 =>
                   IsDestroy(i + 1) /\ log[i + 1].ex = log[i].ex /\ ~NeverExited(log[i + 1])
                   /\ i + 1 < j
    /\ Cardinality(DeployedNotDestroyed) <= 1
    /\ \A ex \in DeployedNotDestroyed :
          pc \in {"destroy", "blocked"} /\ successful_ts_examples[idx] = ex

C32_Witness ==
    /\ pc = "destroy" /\ idx = 2
    /\ Len(Deploys) = 2
    /\ DeployedNotDestroyed = {successful_ts_examples[2]}
    /\ IsDestroy(Len(log) - 1) /\ log[Len(log) - 1].ex = successful_ts_examples[1]

\* What the synthesis phase leaves behind: the discovered examples, the
\* synthesized templates and the synthesis errors.
synthResults ==
    <<ts_examples, py_examples, example_names, ts_templates, py_templates, synth_errors>>

InComparePhase == pc = "compare"
InLifecyclePhase == pc \in {"phase3", "deploy", "destroy", "report_skipped"}

\* C33: a step of the comparison phase changes no list of the report but
\* comparison_errors, a step of the lifecycle phase none but deploy_errors
\* and destroy_errors, and the summary none at all; the discovered examples,
\* the templates and synth_errors never change after the synthesis phase.
C33_PhasesWriteOnlyTheirOwnLists ==
    [][/\ InComparePhase => UNCHANGED <<synthResults, deploy_errors, destroy_errors>>
       /\ InLifecyclePhase => UNCHANGED <<synthResults, comparison_errors>>
       /\ pc = "summary" =>
             UNCHANGED <<synthResults, comparison_errors, deploy_errors, destroy_errors>>]_vars

C33_Witness ==
    /\ pc = "returned"
    /\ DOMAIN ts_templates # {} /\ DOMAIN py_templates # {}
    /\ comparison_errors # << >> /\ destroy_errors # << >>
    /\ Subjects(synth_errors) = ExamplesOf(FailedSynths)

\* The lines of a text as they stand, without normalization.
Verbatim(text) == splitlines(text)

\* C34: a text that does not parse is its own canonical form.  Two such
\* texts match exactly when they are equal, and one of them is compared line
\* for line as it stands with the canonical form of the other side.
C34_UnparseableTextIsComparedVerbatim ==
    CompareReturned =>
       LET ts == synth_in[1]
           py == synth_in[2]
           r == synth_out[1]
       IN /\ ~ts.json /\ ~py.json => (r.match <=> ts = py)
          /\ ~ts.json /\ py.json =>
                /\ ~r.match
                /\ r.diff = unified_diff(Verbatim(ts), Verbatim(json_dumps(json_loads(py))))
          /\ ts.json /\ ~py.json =>
                /\ ~r.match
                /\ r.diff = unified_diff(Verbatim(json_dumps(json_loads(ts))), Verbatim(py))
          /\ ~ts.json /\ ~py.json /\ ts # py =>
                r.diff = unified_diff(Verbatim(ts), Verbatim(py))

C34_Witness ==
    /\ CompareReturned
    /\ ~synth_in[1].json /\ ~synth_in[2].json
    /\ synth_in[1].doc.items # << >> /\ synth_in[2].doc.items # << >>
    /\ synth_in[1] # synth_in[2]
    /\ ~synth_out[1].match /\ synth_out[1].diff # << >>

MismatchReported == pc = "report_mismatch" /\ synth_out # << >>

\* C35: on a mismatch the lines shown are the first 20 lines of the diff
\* text and no others, followed by a count of the rest when there are more,
\* while the entry added to comparison_errors holds the whole diff.
C35_DiffShownTruncatedRecordedWhole ==
    MismatchReported =>
       LET diff == synth_in[1].diff
           lines == split(diff)
           r == synth_out[1]
       IN /\ r.entry = <<synth_in[1].example_name, diff>>
          /\ Len(r.shown) <= DisplayedLines /\ Len(r.shown) <= Len(lines)
          /\ \A i \in 1..Len(r.shown) : r.shown[i][2] = lines[i]
          /\ \A i \in 1..Len(lines) : i <= DisplayedLines => i <= Len(r.shown)
          /\ Len(lines) > DisplayedLines => r.more = <<Len(lines) - DisplayedLines>>
          /\ Len(lines) <= DisplayedLines => r.more = << >>

C35_Witness ==
    /\ MismatchReported
    /\ Len(split(synth_in[1].diff)) = DisplayedLines + 2
    /\ Len(synth_out[1].shown) = DisplayedLines
    /\ synth_out[1].shown[1][1] = "RED"
    /\ SubSeq(synth_out[1].shown[1][2], 1, 3) = <<"--- TypeScript", "+++ Python", "@@ -">>
    \* the last lines of the two texts differ: the "-" one runs into the "+" one
    /\ \E i \in 1..(Len(synth_in[1].diff) - 1) :
          LET element == synth_in[1].diff[i]
          IN element[1] = "-" /\ element[Len(element)] # "\n"
    /\ synth_out[1].entry[2] = synth_in[1].diff
    /\ Len(synth_out[1].entry[2]) = DisplayedLines + 5
    /\ synth_out[1].more = <<2>>

PathsOf(files) == [i \in 1..Len(files) |-> files[i].path]

\* The template lookup was reached: it is among the executed steps.
Lookups == SelectSeq(synth_out[1].steps, LAMBDA e : e.op = "find template")

\* C36: the template is looked up among the immediate children of cdk.out,
\* and in the directories below only when no immediate child matches; without
\* cdk.out, or without any match, the synthesis fails.
C36_TemplateLookupOrder ==
    synth_out # << >> /\ Lookups # << >> =>
       LET env == synth_in[1].env
           r == synth_out[1]
       IN /\ Len(Lookups) = 1
          /\ ~env.cdk_out =>
                /\ ~r.success /\ r.error = <<"cdk.out directory not found">>
                /\ Lookups[1].arg = << >>
          /\ env.cdk_out /\ env.top # << >> =>
                /\ Lookups[1].arg = PathsOf(env.top)
                /\ r.success => r.template = <<env.top[1].text>>
          /\ env.cdk_out /\ env.top = << >> /\ env.nested # << >> =>
                /\ Lookups[1].arg = PathsOf(env.nested)
                /\ r.success => r.template = <<env.nested[1].text>>
          /\ env.cdk_out /\ env.top = << >> /\ env.nested = << >> =>
                ~r.success /\ r.error = <<"No template.json file found in cdk.out">>
          /\ r.success <=> /\ env.cdk_out /\ ListedTemplates(env) # << >>
                           /\ ListedTemplates(env)[1].readable

C36_Witness ==
    /\ synth_out # << >> /\ Lookups # << >>
    /\ synth_in[1].env.cdk_out
    /\ synth_in[1].env.top = << >> /\ synth_in[1].env.nested # << >>
    /\ synth_out[1].success
    /\ synth_out[1].template = <<synth_in[1].env.nested[1].text>>

BuildRuns == SelectSeq(log, LAMBDA e : e.op = "yarn run")

\* C37: the build steps run once each in the order bundle, compile,
\* package:js, package:python; the first one that exits non-zero ends the
\* run with exit status 1 and is the last operation of the run; discovery
\* starts only after all four exited 0.
C37_BuildStepsInOrderFirstFailureStops ==
    LET runs == BuildRuns
    IN /\ Len(runs) <= 4
       /\ \A k \in 1..Len(runs) :
             /\ runs[k].arg = <<(<<"bundle", "compile", "package:js", "package:python">>)[k]>>
             /\ k < Len(runs) => runs[k].code = 0
       /\ \A i \in LogIdx : IsBuildStep(i) /\ log[i].code # 0 =>
             /\ i = Len(log)
             /\ pc = "aborted" /\ exit_code = 1
       /\ \A i \in LogIdx : IsBuildStep(i) /\ i < Len(log) /\ ~IsBuildStep(i + 1) =>
             /\ Len(runs) = 4
             /\ \A j \in (i + 1)..Len(log) : ~IsBuildStep(j)
       /\ (~args.skip_package /\ \E i \in LogIdx : log[i].op = "find_examples") =>
             Len(runs) = 4 /\ runs[4].code = 0
       /\ pc = "build" => Len(runs) = idx - 1

C37_Witness ==
    /\ pc = "aborted" /\ exit_code = 1
    /\ Len(BuildRuns) = 3
    /\ BuildRuns[3].arg = <<"package:js">> /\ BuildRuns[3].code # 0
    /\ Printed("Package building failed. Stopping.")

Deployed(ex) == \E i \in LogIdx : IsDeploy(i) /\ log[i].ex = ex
LifecycleDone == ~args.skip_deploy /\ pc \in {"report_skipped", "summary", "returned"}

\* C38: the outcome of phase 2 does not decide what is deployed: when the
\* lifecycle phase is through, every TypeScript example that synthesized has
\* been deployed, also one whose templates differed and one that had no
\* Python template to compare with.
C38_DeployedWhateverTheComparison ==
    /\ LifecycleDone =>
          \A ex \in SeqRange(ts_examples) :
             Deployed(ex) <=> PathName(ex) \in DOMAIN ts_templates
    /\ pc \in {"deploy", "destroy"} =>
          successful_ts_examples = SelectExamples(ts_examples, DOMAIN ts_templates)

C38_Witness ==
    /\ LifecycleDone
    /\ \E ex \in SeqRange(ts_examples) :
          /\ Deployed(ex)
          /\ PathName(ex) \in {comparison_errors[k][1] : k \in 1..Len(comparison_errors)}

\* A deploy or destroy whose process could not be started or read: the
\* exception text is in the event.
LaunchFailed(i) == (IsDeploy(i) \/ IsDestroy(i)) /\ log[i].err # << >>

\* C39: a deploy or destroy that cannot be launched does not end the run: it
\* comes back as a failed outcome whose error holds the exception text.  The
\* failed deploy is recorded as a deploy error and has no destroy, the failed
\* destroy as a destroy error, and the examples after it are still processed.
C39_LaunchFailureIsAFailedOutcome ==
    /\ \A i \in LogIdx : LaunchFailed(i) =>
          /\ pc \notin {"aborted", "crashed"}
          /\ IsDeploy(i) =>
                /\ \E k \in 1..Len(deploy_errors) :
                      deploy_errors[k] = <<log[i].ex, <<"Deployment error: ">> \o log[i].err>>
                /\ \A j \in LogIdx : IsDestroy(j) => log[j].ex # log[i].ex
          /\ IsDestroy(i) =>
                \E k \in 1..Len(destroy_errors) :
                   destroy_errors[k] = <<log[i].ex, <<"Destruction error: ">> \o log[i].err>>
          /\ pc = "returned" => exit_code = 1
    /\ (LifecycleDone /\ \E i \in LogIdx : LaunchFailed(i)) =>
          \A ex \in SeqRange(successful_ts_examples) : Deployed(ex)

C39_Witness ==
    /\ pc = "returned"
    /\ Len(Deploys) = 2
    /\ LaunchFailed(Len(log) - 3) /\ IsDeploy(Len(log) - 3)
    /\ IsDeploy(Len(log) - 2) /\ log[Len(log) - 2].code = 0
    /\ IsDestroy(Len(log) - 1)
    /\ Len(deploy_errors) = 1

====
